---- MODULE Spec2Model ----
(***************************************************************************)
(* Kanbot: the mutation-propagation pipeline of the backend.               *)
(*                                                                         *)
(*   Spec          the websocket room registry (ConnectionManager) and the *)
(*                 /ws/{space_id} endpoint                                 *)
(*   SpecAuth      the same endpoint over every kind of credential         *)
(*   SpecMutation  the card mutation handlers (audit, commit, publish,     *)
(*                 notifications, webhooks)                                *)
(*   SpecSweep     scheduled cards: batch sweep and manual trigger         *)
(***************************************************************************)
EXTENDS Integers, Sequences, FiniteSets, TLC

None == "None"

(***************************************************************************)
(* Bounds                                                                  *)
(***************************************************************************)
MaxPublishes == 3
MaxRequests == 2
MaxSweeps == 2
MaxChain == 3
MaxRejections == 7
MaxTaskRequests == 3
MaxUpdates == 1

(***************************************************************************)
(* The world the websocket endpoint authenticates against                  *)
(***************************************************************************)
Conns == {"w1", "w2", "w3"}
\* One broadcast is in flight at a time.
Publishers == {"p1"}

UsersInDb == {"alice", "bob", "carol"}
BannedUsers == {"carol"}

\* Credentials a client can present in ?token=.
\*   none      no token            garbage   verify_token raises
\*   t_nosub   payload without sub t_ghost   sub names no row of users
Tokens == {"none", "garbage", "t_nosub", "t_ghost", "t_carol", "t_alice", "t_bob"}
InvalidTokens == {"garbage"}
TokenSub ==
    [t \in Tokens \ {"none", "garbage"} |->
        CASE t = "t_nosub" -> ""
          [] t = "t_ghost" -> "ghost"
          [] t = "t_carol" -> "carol"
          [] t = "t_alice" -> "alice"
          [] t = "t_bob"   -> "bob"]

\* s1, s2 exist; s9 is a well-formed id of no space; zz is not a UUID.
Rooms == {"s1", "s2"}
SpaceIds == {"s1", "s2", "s9", "zz"}
WellFormedIds == {"s1", "s2", "s9"}
SpaceOwner == [s \in Rooms |-> IF s = "s1" THEN "alice" ELSE "bob"]
SpaceMembers == [s \in Rooms |-> IF s = "s1" THEN {"alice", "carol"} ELSE {"alice"}]

VARIABLES
    active_connections, \* ConnectionManager.active_connections: room -> set
    wsPc,               \* position of each websocket_endpoint coroutine
    wsToken, wsSpace,   \* its token and space_id parameters
    wsUser,             \* result of authenticate_websocket
    pubPc,              \* position of each broadcast_to_space coroutine
    pubRoom,            \* its space_id
    pubUsed,            \* the set iterator's si_used (size when created)
    pubStale,           \* the iterated set object is no longer the room's
    pubStart,           \* members of the set when the iterator was created
    pubPassed,          \* members the iterator's cursor is already past
    pubCur,             \* connection of the pending send_json
    pubDead,            \* dead_connections
    pubDelivered,       \* conn -> number of send_json that succeeded
    pubFailed,          \* connections whose send_json raised in this publish
    pubInterf,          \* kinds of operation that changed the set meanwhile
    numPublishes,
    connects, disconnects,  \* per room: calls that registered / disconnect calls
    lastSendFailed,     \* connections whose most recent send_json raised
    removedByPublish,   \* connections discarded by broadcast_to_space
    everRegistered      \* connections that have ever been in the registry

wsVars == <<active_connections, wsPc, wsToken, wsSpace, wsUser, pubPc, pubRoom,
            pubUsed, pubStale, pubStart, pubPassed, pubCur, pubDead,
            pubDelivered, pubFailed, pubInterf, numPublishes, connects,
            disconnects, lastSendFailed, removedByPublish, everRegistered>>

VARIABLES
    reqPc,              \* position of the card mutation handler in progress
    req,                \* its inputs: kind, actor, card, room
    reqTrace,           \* the steps it has taken, in order
    sessHistory,        \* CardHistory rows added to its session, not committed
    sessNotifs,         \* Notification rows flushed in its session, not committed
    sessLogs,           \* WebhookLog rows added to its session, not committed
    reqPushLeft,        \* notifications still to be pushed over the websocket
    reqWhLeft,          \* webhooks the dispatch loop has not reached yet
    dbCards,            \* committed cards
    dbHistory,          \* committed card_history rows
    dbNotifications,    \* committed notifications rows
    dbWebhookLogs,      \* committed webhook_logs rows
    dbMutations,        \* requests whose mutation is committed
    numRequests

mutVars == <<reqPc, req, reqTrace, sessHistory, sessNotifs, sessLogs, reqPushLeft,
             reqWhLeft, dbCards, dbHistory, dbNotifications, dbWebhookLogs,
             dbMutations, numRequests>>

VARIABLES
    clock,              \* index into Timeline: what datetime.now() returns
    dbTemplates,        \* committed scheduled_cards rows
    dbColumns,          \* committed columns rows
    dbSchedCards,       \* committed cards made from templates
    swPc,               \* position of each process_scheduled_cards request
    swSpace, swNow,     \* its space_id and the now it read
    swRun,              \* its number among the sweeps started
    swQueue,            \* selected templates the loop has not reached yet
    swSess,             \* its session's ScheduledCard objects
    swDirty,            \* their attributes changed since the last commit
    swCur,              \* template being materialised (create_card_from_schedule)
    swPlan,             \* the column that create_card_from_schedule resolved
    swSnap,             \* scheduled_cards as they were at the select
    swOverlap,          \* another sweep or trigger was in progress during this one
    concurrent,         \* pairs of sweeps that both selected before either committed
    numSweeps

sweepVars == <<clock, dbTemplates, dbColumns, dbSchedCards, swPc, swSpace, swNow,
               swRun, swQueue, swSess, swDirty, swCur, swPlan, swSnap, swOverlap,
               concurrent, numSweeps>>

VARIABLES
    calcT,              \* the datetime calculate_next_run is applied to next
    calcPrev,           \* the datetime it was last applied to
    calcAnchor,         \* the first datetime of the chain
    calcInterval,       \* the interval of the chain
    calcSteps,          \* how many times it was applied
    calcRaised          \* the last application raised ValueError

calcVars == <<calcT, calcPrev, calcAnchor, calcInterval, calcSteps, calcRaised>>

VARIABLES
    trPc,               \* position of the trigger_scheduled_card request
    trTpl,              \* the template it was called for
    trRow,              \* its session's ScheduledCard object
    trPlan,             \* the column that create_card_from_schedule resolved
    trRun               \* its number among the requests started

trVars == <<trPc, trTpl, trRow, trPlan, trRun>>

VARIABLES
    rlCache,            \* _rate_limit_backoff_cache: client_key -> (count, last_retry)
    rlNow,              \* what time.time() returns, in seconds
    rlWaited,           \* time has passed since the last rejected attempt
    rlHint,             \* retry_after_minutes of each key's last 429 response
    rlPrev,             \* count and time stored by each key's last rejected attempt
    rlRun,              \* each key's rejected attempts since its last reset
    rlLast,             \* what the last call of the handler did
    numRejections       \* rejected attempts so far

rlVars == <<rlCache, rlNow, rlWaited, rlHint, rlPrev, rlRun, rlLast, numRejections>>

VARIABLES
    tkCard,             \* the committed row of the card: exists, the two counters
    tkTasks,            \* the committed tasks rows of the card
    tkPc,               \* position of each subtask request
    tkOp,               \* its handler and inputs
    tkRead,             \* the Card object its session loaded
    tkSeen,             \* the Task object its session loaded
    numTaskRequests     \* subtask requests started so far

taskVars == <<tkCard, tkTasks, tkPc, tkOp, tkRead, tkSeen, numTaskRequests>>

VARIABLES
    numUpdates          \* update_scheduled_card requests so far

tplVars == <<numUpdates>>

vars == <<wsVars, mutVars, sweepVars, calcVars, trVars, rlVars, taskVars, tplVars>>

(***************************************************************************)
(* main.py: authentication and the membership check                        *)
(***************************************************************************)
\* authenticate_websocket without the is_banned test.
authenticate_websocket_NoBanCheck(token) ==
    IF token = "none" THEN None
    ELSE IF token \in InvalidTokens THEN None
    ELSE LET user_id == TokenSub[token] IN
         IF user_id = "" THEN None
         ELSE IF user_id \in UsersInDb THEN user_id
         ELSE None

authenticate_websocket(token) ==
    IF token = "none" THEN None
    ELSE IF token \in InvalidTokens THEN None
    ELSE LET user_id == TokenSub[token] IN
         IF user_id = "" THEN None
         ELSE IF user_id \in UsersInDb /\ user_id \notin BannedUsers THEN user_id
         ELSE None

check_space_access(user_id, space_id) ==
    IF space_id \notin WellFormedIds THEN FALSE
    ELSE IF space_id \notin Rooms THEN FALSE
    ELSE IF SpaceOwner[space_id] = user_id THEN TRUE
    ELSE user_id \in SpaceMembers[space_id]

(***************************************************************************)
(* websocket/manager.py: the registry                                      *)
(***************************************************************************)
RoomSet(r) == IF r \in DOMAIN active_connections THEN active_connections[r] ELSE {}

Iterating(p) == pubPc[p] = "sending"

\* Publishers whose iterator walks the set object currently held for room r.
IteratingLive(r) == {p \in Publishers : Iterating(p) /\ pubRoom[p] = r /\ ~pubStale[p]}

Interfere(ps, kind) ==
    [p \in Publishers |-> IF p \in ps THEN pubInterf[p] \cup {kind} ELSE pubInterf[p]]

\* connect's registry update (after accept): create the room's set if absent, add.
ConnectRegistry(w, r) ==
    IF r \in DOMAIN active_connections
    THEN [active_connections EXCEPT ![r] = @ \cup {w}]
    ELSE [x \in DOMAIN active_connections \cup {r} |->
            IF x = r THEN {w} ELSE active_connections[x]]

\* disconnect that deletes an emptied room but never discards from a shared one.
DisconnectRegistry_NoDiscard(w, r) ==
    IF r \in DOMAIN active_connections /\ active_connections[r] \ {w} = {}
    THEN [x \in DOMAIN active_connections \ {r} |-> active_connections[x]]
    ELSE active_connections

\* disconnect: discard, then delete the room's entry when its set is empty.
DisconnectRegistry(w, r) ==
    IF r \in DOMAIN active_connections
    THEN IF active_connections[r] \ {w} = {}
         THEN [x \in DOMAIN active_connections \ {r} |-> active_connections[x]]
         ELSE [active_connections EXCEPT ![r] = @ \ {w}]
    ELSE active_connections

\* the trailing loop of broadcast_to_space: discard every dead connection.
\* The room's entry is kept even when its set becomes empty.
DiscardDead(r, dead) ==
    [active_connections EXCEPT ![r] = @ \ dead]

wsUnchangedPub == UNCHANGED <<pubPc, pubRoom, pubUsed, pubStart, pubPassed,
                              pubCur, pubDead, pubDelivered, pubFailed,
                              numPublishes, lastSendFailed, removedByPublish,
                              mutVars, sweepVars, calcVars, trVars, rlVars, taskVars, tplVars>>

\* websocket_endpoint up to the result of authenticate_websocket.
WsAuthenticate(w, token, space_id) ==
    /\ wsPc[w] = "new"
    /\ wsToken' = [wsToken EXCEPT ![w] = token]
    /\ wsSpace' = [wsSpace EXCEPT ![w] = space_id]
    /\ LET user == authenticate_websocket(token) IN
         /\ wsUser' = [wsUser EXCEPT ![w] = user]
         /\ wsPc' = [wsPc EXCEPT ![w] = IF user = None THEN "closed4001" ELSE "authed"]
    /\ UNCHANGED <<active_connections, pubStale, pubInterf, connects, disconnects,
                   everRegistered>>
    /\ wsUnchangedPub

\* websocket_endpoint: the membership check and its close(4003).
WsCheckAccess(w) ==
    /\ wsPc[w] = "authed"
    /\ wsPc' = [wsPc EXCEPT ![w] =
                  IF check_space_access(wsUser[w], wsSpace[w])
                  THEN "accepting" ELSE "closed4003"]
    /\ UNCHANGED <<active_connections, wsToken, wsSpace, wsUser, pubStale, pubInterf,
                   connects, disconnects, everRegistered>>
    /\ wsUnchangedPub

\* manager.connect after a successful accept().
WsConnect(w) ==
    /\ wsPc[w] = "accepting"
    /\ LET r == wsSpace[w] IN
         /\ active_connections' = ConnectRegistry(w, r)
         /\ pubInterf' = Interfere(IteratingLive(r), "connect")
         /\ connects' = [connects EXCEPT ![r] = @ + 1]
    /\ wsPc' = [wsPc EXCEPT ![w] = "open"]
    /\ everRegistered' = everRegistered \cup {w}
    /\ UNCHANGED <<wsToken, wsSpace, wsUser, pubStale, disconnects>>
    /\ wsUnchangedPub

\* accept() raises (the client is already gone): the endpoint ends, unregistered.
WsAcceptFails(w) ==
    /\ wsPc[w] = "accepting"
    /\ wsPc' = [wsPc EXCEPT ![w] = "aborted"]
    /\ UNCHANGED <<active_connections, wsToken, wsSpace, wsUser, pubStale, pubInterf,
                   connects, disconnects, everRegistered>>
    /\ wsUnchangedPub

\* The receive loop ends (WebSocketDisconnect or any other exception):
\* manager.disconnect.
WsDisconnect(w) ==
    /\ wsPc[w] = "open"
    /\ LET r == wsSpace[w]
           changed == w \in RoomSet(r)
           deleted == r \in DOMAIN active_connections /\ active_connections[r] \ {w} = {}
       IN
         /\ active_connections' = DisconnectRegistry(w, r)
         /\ pubInterf' = Interfere(IF changed THEN IteratingLive(r) ELSE {}, "disconnect")
         /\ pubStale' = [p \in Publishers |->
                           pubStale[p] \/ (deleted /\ p \in IteratingLive(r))]
         /\ disconnects' = [disconnects EXCEPT ![r] = @ + 1]
    /\ wsPc' = [wsPc EXCEPT ![w] = "disconnected"]
    /\ UNCHANGED <<wsToken, wsSpace, wsUser, connects, everRegistered>>
    /\ wsUnchangedPub

wsUnchangedWs == UNCHANGED <<wsPc, wsToken, wsSpace, wsUser, connects, disconnects,
                             everRegistered, mutVars, sweepVars, calcVars, trVars,
                             rlVars, taskVars, tplVars>>

\* What the iterator sees of the set object it walks.
IterSet(p) == IF pubStale[p] THEN {} ELSE RoomSet(pubRoom[p])

\* An except clause that logs the error and forgets the connection.
MarkDead_Forget(dead, w) == dead

\* What the except clause does with a connection whose send raised.
MarkDead(dead, w) == dead \cup {w}

\* The code that runs, without suspension, from one await of send_json to the
\* next: the set iterator's __next__ and what follows it.
\*   - RuntimeError when the set's size differs from the iterator's si_used;
\*   - else a member the cursor has not passed is yielded and sent to (a member
\*     added since the iterator was created lies before or after the cursor,
\*     so it may be skipped);
\*   - else StopIteration and the loop over dead_connections, where
\*     active_connections[space_id] raises KeyError when the room's entry is
\*     gone.
Advance(p, dead) ==
    LET r == pubRoom[p] IN
    IF Cardinality(IterSet(p)) # pubUsed[p]
    THEN /\ pubPc' = [pubPc EXCEPT ![p] = "raised"]
         /\ UNCHANGED <<active_connections, pubPassed, pubCur, pubInterf,
                        removedByPublish>>
    ELSE \/ \E w \in IterSet(p) \ pubPassed[p] :
              /\ pubCur' = [pubCur EXCEPT ![p] = w]
              /\ pubPassed' = [pubPassed EXCEPT ![p] = @ \cup {w}]
              /\ pubPc' = [pubPc EXCEPT ![p] = "sending"]
              /\ UNCHANGED <<active_connections, pubInterf, removedByPublish>>
         \/ /\ (IterSet(p) \ pubPassed[p]) \cap pubStart[p] = {}
            /\ UNCHANGED <<pubPassed, pubCur>>
            /\ IF dead # {} /\ r \notin DOMAIN active_connections
               THEN /\ pubPc' = [pubPc EXCEPT ![p] = "raised"]
                    /\ UNCHANGED <<active_connections, pubInterf, removedByPublish>>
               ELSE /\ pubPc' = [pubPc EXCEPT ![p] = "returned"]
                    /\ active_connections' =
                          IF dead = {} THEN active_connections ELSE DiscardDead(r, dead)
                    /\ removedByPublish' = removedByPublish \cup (dead \cap RoomSet(r))
                    /\ pubInterf' =
                          Interfere(IF dead \cap RoomSet(r) # {}
                                    THEN IteratingLive(r) \ {p} ELSE {}, "publish")

\* broadcast_to_space is called for a room without an entry, or whose set is
\* empty: it returns without a suspension point.
PubStartEmpty(p, r) ==
    /\ ~Iterating(p)
    /\ numPublishes < MaxPublishes
    /\ RoomSet(r) = {}
    /\ numPublishes' = numPublishes + 1
    /\ pubRoom' = [pubRoom EXCEPT ![p] = r]
    /\ pubPc' = [pubPc EXCEPT ![p] = "returned"]
    /\ pubUsed' = [pubUsed EXCEPT ![p] = 0]
    /\ pubStart' = [pubStart EXCEPT ![p] = {}]
    /\ pubStale' = [pubStale EXCEPT ![p] = FALSE]
    /\ pubPassed' = [pubPassed EXCEPT ![p] = {}]
    /\ pubCur' = [pubCur EXCEPT ![p] = None]
    /\ pubDead' = [pubDead EXCEPT ![p] = {}]
    /\ pubFailed' = [pubFailed EXCEPT ![p] = {}]
    /\ pubDelivered' = [pubDelivered EXCEPT ![p] = [w \in Conns |-> 0]]
    /\ pubInterf' = [pubInterf EXCEPT ![p] = {}]
    /\ UNCHANGED <<active_connections, lastSendFailed, removedByPublish>>
    /\ wsUnchangedWs

\* broadcast_to_space up to its first await: the set iterator is created and
\* yields its first member w.
PubStart(p, r, w) ==
    /\ ~Iterating(p)
    /\ numPublishes < MaxPublishes
    /\ w \in RoomSet(r)
    /\ numPublishes' = numPublishes + 1
    /\ pubRoom' = [pubRoom EXCEPT ![p] = r]
    /\ pubPc' = [pubPc EXCEPT ![p] = "sending"]
    /\ pubUsed' = [pubUsed EXCEPT ![p] = Cardinality(RoomSet(r))]
    /\ pubStart' = [pubStart EXCEPT ![p] = RoomSet(r)]
    /\ pubStale' = [pubStale EXCEPT ![p] = FALSE]
    /\ pubPassed' = [pubPassed EXCEPT ![p] = {w}]
    /\ pubCur' = [pubCur EXCEPT ![p] = w]
    /\ pubDead' = [pubDead EXCEPT ![p] = {}]
    /\ pubFailed' = [pubFailed EXCEPT ![p] = {}]
    /\ pubDelivered' = [pubDelivered EXCEPT ![p] = [x \in Conns |-> 0]]
    /\ pubInterf' = [pubInterf EXCEPT ![p] = {}]
    /\ UNCHANGED <<active_connections, lastSendFailed, removedByPublish>>
    /\ wsUnchangedWs

\* await connection.send_json(message) returns; the loop goes on.
PubSendOk(p) ==
    /\ pubPc[p] = "sending"
    /\ wsPc[pubCur[p]] = "open"
    /\ pubDelivered' = [pubDelivered EXCEPT ![p][pubCur[p]] = @ + 1]
    /\ lastSendFailed' = lastSendFailed \ {pubCur[p]}
    /\ Advance(p, pubDead[p])
    /\ UNCHANGED <<pubRoom, pubUsed, pubStale, pubStart, pubDead, pubFailed,
                   numPublishes>>
    /\ wsUnchangedWs

\* await connection.send_json(message) raises: logged, remembered as dead; the
\* loop goes on.
PubSendFail(p) ==
    /\ pubPc[p] = "sending"
    /\ pubDead' = [pubDead EXCEPT ![p] = MarkDead(@, pubCur[p])]
    /\ pubFailed' = [pubFailed EXCEPT ![p] = @ \cup {pubCur[p]}]
    /\ lastSendFailed' = lastSendFailed \cup {pubCur[p]}
    /\ Advance(p, MarkDead(pubDead[p], pubCur[p]))
    /\ UNCHANGED <<pubRoom, pubUsed, pubStale, pubStart, pubDelivered, numPublishes>>
    /\ wsUnchangedWs


(***************************************************************************)
(* api/v1/cards.py: create_card, update_card, move_card, delete_card       *)
(***************************************************************************)
CardIds == {"k1", "k2"}
Kinds == {"create", "update", "move", "delete"}
Actors == {"alice", "bob"}

\* The rows of webhooks, in table order; events = {} subscribes to every event.
Webhooks ==
    << [id |-> "h1", space_id |-> "s1", events |-> {}, active |-> TRUE],
       [id |-> "h2", space_id |-> "s1", events |-> {"card_created"}, active |-> TRUE],
       [id |-> "h3", space_id |-> "s1", events |-> {}, active |-> FALSE],
       [id |-> "h4", space_id |-> "s2", events |-> {"card_deleted"}, active |-> TRUE] >>

\* What client.post can end in: a response with a status code, or an exception
\* (timeout, connection refused).
PostOutcomes ==
    { [raised |-> FALSE, status |-> 200],
      [raised |-> FALSE, status |-> 404],
      [raised |-> TRUE, status |-> 0] }

\* response_status of a WebhookLog whose post raised stays NULL.
NullStatus == 0

EventOf(kind) ==
    CASE kind = "create" -> "card_created"
      [] kind = "update" -> "card_updated"
      [] kind = "move"   -> "card_moved"
      [] kind = "delete" -> "card_deleted"

\* The handlers' membership test: a row of space_members for the actor.
IsSpaceMember(user, space) == user \in SpaceMembers[space]

\* Which handlers call log_card_action: create and move always, update only
\* when the name changed, delete and add_comment never.
LogsAudit(kind, changed) ==
    CASE kind = "create" -> TRUE
      [] kind = "move"   -> TRUE
      [] kind = "update" -> changed
      [] kind = "delete" -> FALSE
      [] kind = "comment" -> FALSE

\* notify_targets: every member of the space but the actor.
NotifyTargets(space, actor) == {u \in SpaceMembers[space] : u # actor}

\* A loop without the filter.
WebhookAdmits_All(webhook, event) == TRUE

\* The filter of the dispatch loop.
WebhookAdmits(webhook, event) == webhook.events = {} \/ event \in webhook.events

\* select(Webhook).where(space_id == ..., active == True)
ActiveWebhooks(space) ==
    LET Wanted(h) == h.space_id = space /\ h.active
    IN SelectSeq(Webhooks, Wanted)

RECURSIVE SkipFiltered(_, _)
\* The loop's continue: drop leading webhooks whose filter rejects the event.
SkipFiltered(hooks, event) ==
    IF hooks = <<>> THEN <<>>
    ELSE IF WebhookAdmits(Head(hooks), event) THEN hooks
    ELSE SkipFiltered(Tail(hooks), event)

ReqTerminal == {"idle", "rejected", "done", "error", "crashed"}

mutOnly == UNCHANGED <<wsVars, sweepVars, calcVars, trVars, rlVars, taskVars, tplVars>>

NoReq == [id |-> 0, kind |-> None, actor |-> None, agent |-> FALSE,
          changed |-> FALSE, room |-> None, card |-> None]

\* A handler up to its first commit: the access checks, the change and (where
\* the handler has one) the log_card_action row, all in the session.
MutBegin(kind, actor, agent, changed, card, room) ==
    /\ reqPc \in ReqTerminal
    /\ numRequests < MaxRequests
    /\ numRequests' = numRequests + 1
    /\ IF kind = "create" THEN card \notin {c.id : c \in dbCards}
                          ELSE [id |-> card, room |-> room] \in dbCards
    /\ req' = [id |-> numRequests + 1, kind |-> kind, actor |-> actor, agent |-> agent,
               changed |-> changed, room |-> room, card |-> card]
    /\ IF IsSpaceMember(actor, room)
       THEN /\ reqPc' = "staged"
            /\ sessHistory' =
                  IF LogsAudit(kind, changed)
                  THEN {[card |-> card, action |-> kind, actor |-> actor,
                         req |-> numRequests + 1]}
                  ELSE {}
            /\ reqTrace' = IF LogsAudit(kind, changed) THEN <<"audit">> ELSE <<>>
       ELSE /\ reqPc' = "rejected"
            /\ sessHistory' = {}
            /\ reqTrace' = <<>>
    /\ sessNotifs' = {}
    /\ sessLogs' = {}
    /\ reqPushLeft' = {}
    /\ reqWhLeft' = <<>>
    /\ UNCHANGED <<dbCards, dbHistory, dbNotifications, dbWebhookLogs, dbMutations>>
    /\ mutOnly

\* await db.commit(): the change and the session's history rows become durable
\* together. Deleting a card deletes its card_history rows (cascade).
MutCommit ==
    /\ reqPc = "staged"
    /\ reqPc' = "committed"
    /\ dbMutations' = dbMutations \cup {req.id}
    /\ dbCards' = CASE req.kind = "create" -> dbCards \cup {[id |-> req.card, room |-> req.room]}
                    [] req.kind = "delete" -> dbCards \ {[id |-> req.card, room |-> req.room]}
                    [] OTHER -> dbCards
    /\ dbHistory' = IF req.kind = "delete"
                    THEN {h \in dbHistory : h.card # req.card}
                    ELSE dbHistory \cup sessHistory
    /\ sessHistory' = {}
    /\ reqTrace' = Append(reqTrace, "commit")
    /\ UNCHANGED <<req, sessNotifs, sessLogs, reqPushLeft, reqWhLeft, dbNotifications,
                   dbWebhookLogs, numRequests>>
    /\ mutOnly

\* await ws_manager.send_card_*(...) returns.
MutPublish ==
    /\ reqPc = "committed"
    /\ reqPc' = "published"
    /\ reqTrace' = Append(reqTrace, "publish")
    /\ UNCHANGED <<req, sessHistory, sessNotifs, sessLogs, reqPushLeft, reqWhLeft,
                   dbCards, dbHistory, dbNotifications, dbWebhookLogs, dbMutations,
                   numRequests>>
    /\ mutOnly

\* broadcast_to_space raises (its set changed size while it was suspended);
\* the handler does not catch it and the request ends in an error.
MutPublishRaises ==
    /\ reqPc \in {"committed", "pushing"}
    /\ reqPc' = "error"
    /\ sessNotifs' = {}
    /\ UNCHANGED <<req, reqTrace, sessHistory, sessLogs, reqPushLeft, reqWhLeft,
                   dbCards, dbHistory, dbNotifications, dbWebhookLogs, dbMutations,
                   numRequests>>
    /\ mutOnly

\* if actor.is_agent: one create_notification (add + flush) per target.
MutNotifyStage ==
    /\ reqPc = "published"
    /\ req.agent
    /\ NotifyTargets(req.room, req.actor) # {}
    /\ sessNotifs' = {[user_id |-> u, req |-> req.id] : u \in NotifyTargets(req.room, req.actor)}
    /\ reqPc' = "notif_staged"
    /\ UNCHANGED <<req, reqTrace, sessHistory, sessLogs, reqPushLeft, reqWhLeft,
                   dbCards, dbHistory, dbNotifications, dbWebhookLogs, dbMutations,
                   numRequests>>
    /\ mutOnly

\* if created_notifications: await db.commit()
MutNotifyCommit ==
    /\ reqPc = "notif_staged"
    /\ dbNotifications' = dbNotifications \cup sessNotifs
    /\ reqPushLeft' = sessNotifs
    /\ sessNotifs' = {}
    /\ reqTrace' = Append(reqTrace, "notify")
    /\ reqPc' = "pushing"
    /\ UNCHANGED <<req, sessHistory, sessLogs, reqWhLeft, dbCards, dbHistory,
                   dbWebhookLogs, dbMutations, numRequests>>
    /\ mutOnly

\* await ws_manager.send_notification(...) for one notification.
MutNotifyPush(n) ==
    /\ reqPc = "pushing"
    /\ n \in reqPushLeft
    /\ reqPushLeft' = reqPushLeft \ {n}
    /\ reqTrace' = Append(reqTrace, "push")
    /\ reqPc' = IF reqPushLeft \ {n} = {} THEN "notified" ELSE "pushing"
    /\ UNCHANGED <<req, sessHistory, sessNotifs, sessLogs, reqWhLeft, dbCards, dbHistory,
                   dbNotifications, dbWebhookLogs, dbMutations, numRequests>>
    /\ mutOnly

\* dispatch_webhooks: the select; it returns at once when no webhook is active.
MutDispatchLoad ==
    /\ req.kind \in Kinds
    /\ \/ reqPc = "notified"
       \/ reqPc = "published" /\ (~req.agent \/ NotifyTargets(req.room, req.actor) = {})
    /\ LET hooks == ActiveWebhooks(req.room) IN
         IF hooks = <<>>
         THEN reqPc' = "done" /\ reqWhLeft' = <<>>
         ELSE reqPc' = "dispatching" /\ reqWhLeft' = hooks
    /\ UNCHANGED <<req, reqTrace, sessHistory, sessNotifs, sessLogs, reqPushLeft, dbCards,
                   dbHistory, dbNotifications, dbWebhookLogs, dbMutations, numRequests>>
    /\ mutOnly

\* log.success as if every response were a success.
LogSuccess_AnyResponse(outcome) == ~outcome.raised

\* log.success = 200 <= response.status_code < 300; False when the post raised.
LogSuccess(outcome) ==
    ~outcome.raised /\ 200 <= outcome.status /\ outcome.status < 300

\* An exception of client.post escaping from dispatch_webhooks.
PcAfterPost_Raise(outcome) == IF outcome.raised THEN "error" ELSE "dispatching"

\* except Exception: the failure is logged and the loop goes on.
PcAfterPost(outcome) == "dispatching"

\* The dispatch loop reaches the next webhook its filter admits and starts
\* await client.post(...) for it.
MutDispatchSend ==
    /\ reqPc = "dispatching"
    /\ LET hooks == SkipFiltered(reqWhLeft, EventOf(req.kind)) IN
         /\ hooks # <<>>
         /\ reqWhLeft' = hooks
    /\ reqPc' = "posting"
    /\ reqTrace' = Append(reqTrace, "webhook")
    /\ UNCHANGED <<req, sessHistory, sessNotifs, sessLogs, reqPushLeft, dbCards, dbHistory,
                   dbNotifications, dbWebhookLogs, dbMutations, numRequests>>
    /\ mutOnly

\* client.post ends in outcome (a response, or an exception such as the
\* 10 s timeout); one WebhookLog is added to the session and the loop goes on
\* to the next webhook.
MutDispatchPost(outcome) ==
    /\ reqPc = "posting"
    /\ LET hook == Head(reqWhLeft)
           earlier == {l \in sessLogs : l.webhook_id = hook.id /\ l.req = req.id}
       IN sessLogs' = sessLogs \cup
               {[webhook_id |-> hook.id, event |-> EventOf(req.kind),
                 req |-> req.id, seq |-> Cardinality(earlier) + 1,
                 response_status |-> IF outcome.raised THEN NullStatus ELSE outcome.status,
                 success |-> LogSuccess(outcome)]}
    /\ reqWhLeft' = Tail(reqWhLeft)
    /\ reqPc' = PcAfterPost(outcome)
    /\ UNCHANGED <<req, reqTrace, sessHistory, sessNotifs, reqPushLeft, dbCards, dbHistory,
                   dbNotifications, dbWebhookLogs, dbMutations, numRequests>>
    /\ mutOnly

\* The loop is exhausted: await db.commit() makes the logs durable; the
\* handler returns its response.
MutDispatchCommit ==
    /\ reqPc = "dispatching"
    /\ SkipFiltered(reqWhLeft, EventOf(req.kind)) = <<>>
    /\ dbWebhookLogs' = dbWebhookLogs \cup sessLogs
    /\ sessLogs' = {}
    /\ reqWhLeft' = <<>>
    /\ reqPc' = "done"
    /\ UNCHANGED <<req, reqTrace, sessHistory, sessNotifs, reqPushLeft, dbCards,
                   dbHistory, dbNotifications, dbMutations, numRequests>>
    /\ mutOnly

\* The process dies while a handler is in progress: its session is lost.
MutCrash ==
    /\ reqPc \notin ReqTerminal
    /\ reqPc' = "crashed"
    /\ sessHistory' = {}
    /\ sessNotifs' = {}
    /\ sessLogs' = {}
    /\ UNCHANGED <<req, reqTrace, reqPushLeft, reqWhLeft, dbCards, dbHistory,
                   dbNotifications, dbWebhookLogs, dbMutations, numRequests>>
    /\ mutOnly

(***************************************************************************)
(* api/v1/cards.py: add_comment; api/v1/agents.py: delegate_task;          *)
(* services/notifications.py: notify_mentions                              *)
(***************************************************************************)
\* target_user_id values of a delegation: ghost is the id of no user.
DelegateTargets == UsersInDb \cup {"ghost"}
\* space_id values of a delegation: None when the field is omitted, s9 the id
\* of no space.
DelegateSpaces == Rooms \cup {None, "s9"}
\* Names that can follow an @ in a comment; usernames are unique, a user is
\* named by its id here.
MentionNames == {"alice", "carol", "ghost"}

\* add_comment up to its commit: verify_card_access and the Comment row; it
\* calls no log_card_action.
MutComment(actor, agent, card, room) ==
    /\ MutBegin("comment", actor, agent, FALSE, card, room)
    /\ req'.kind = "comment"

\* delegate_task accepts target_user_id when the user exists and, if a space
\* is given, the space exists and the target is one of its members.
DelegateAccepts(agent, target, space) ==
    /\ agent
    /\ target \in UsersInDb
    /\ space # None => (space \in Rooms /\ target \in SpaceMembers[space])

\* user_id of the delegation notification: delegate_data.target_user_id,
\* whoever the actor is.
DelegateRecipients(actor, target) == {target}

\* delegate_task up to create_notification (add + flush).
DelegateBegin(actor, agent, target, space) ==
    /\ reqPc \in ReqTerminal
    /\ numRequests < MaxRequests
    /\ numRequests' = numRequests + 1
    /\ req' = [id |-> numRequests + 1, kind |-> "delegate", actor |-> actor,
               agent |-> agent, changed |-> FALSE, room |-> space, card |-> None]
    /\ IF DelegateAccepts(agent, target, space)
       THEN /\ reqPc' = "delegating"
            /\ sessNotifs' = {[user_id |-> u, req |-> numRequests + 1] :
                                 u \in DelegateRecipients(actor, target)}
       ELSE /\ reqPc' = "rejected"
            /\ sessNotifs' = {}
    /\ reqTrace' = <<>>
    /\ sessHistory' = {}
    /\ sessLogs' = {}
    /\ reqPushLeft' = {}
    /\ reqWhLeft' = <<>>
    /\ UNCHANGED <<dbCards, dbHistory, dbNotifications, dbWebhookLogs, dbMutations>>
    /\ mutOnly

\* await db.commit(); the notification is pushed only if a space was given.
DelegateCommit ==
    /\ reqPc = "delegating"
    /\ dbNotifications' = dbNotifications \cup sessNotifs
    /\ sessNotifs' = {}
    /\ reqTrace' = Append(reqTrace, "notify")
    /\ IF req.room # None /\ sessNotifs # {}
       THEN reqPushLeft' = sessNotifs /\ reqPc' = "pushing"
       ELSE reqPushLeft' = {} /\ reqPc' = "done"
    /\ UNCHANGED <<req, sessHistory, sessLogs, reqWhLeft, dbCards, dbHistory,
                   dbWebhookLogs, dbMutations, numRequests>>
    /\ mutOnly

\* add_comment and delegate_task return after their notifications: they call
\* no dispatch_webhooks.
MutReturn ==
    /\ req.kind \in {"comment", "delegate"}
    /\ \/ reqPc = "notified"
       \/ reqPc = "published" /\ (~req.agent \/ NotifyTargets(req.room, req.actor) = {})
    /\ reqPc' = "done"
    /\ UNCHANGED <<req, reqTrace, sessHistory, sessNotifs, sessLogs, reqPushLeft, reqWhLeft,
                   dbCards, dbHistory, dbNotifications, dbWebhookLogs, dbMutations,
                   numRequests>>
    /\ mutOnly

\* notify_mentions: the users named, but the author.
MentionRecipients(usernames, author_id) ==
    {u \in usernames \cap UsersInDb : u # author_id}

\* notify_mentions(db, content, ..., author_id, ...) on a session: one
\* create_notification (add + flush) per mentioned user; it commits nothing.
NotifyMentions(author_id, usernames) ==
    /\ reqPc \in ReqTerminal
    /\ numRequests < MaxRequests
    /\ numRequests' = numRequests + 1
    /\ req' = [id |-> numRequests + 1, kind |-> "mention", actor |-> author_id,
               agent |-> FALSE, changed |-> FALSE, room |-> None, card |-> None]
    /\ sessNotifs' = {[user_id |-> u, req |-> numRequests + 1] :
                         u \in MentionRecipients(usernames, author_id)}
    /\ reqPc' = "done"
    /\ reqTrace' = <<>>
    /\ sessHistory' = {}
    /\ sessLogs' = {}
    /\ reqPushLeft' = {}
    /\ reqWhLeft' = <<>>
    /\ UNCHANGED <<dbCards, dbHistory, dbNotifications, dbWebhookLogs, dbMutations>>
    /\ mutOnly

MutInit ==
    /\ reqPc = "idle"
    /\ req = NoReq
    /\ reqTrace = <<>>
    /\ sessHistory = {}
    /\ sessNotifs = {}
    /\ sessLogs = {}
    /\ reqPushLeft = {}
    /\ reqWhLeft = <<>>
    /\ dbCards = {}
    /\ dbHistory = {}
    /\ dbNotifications = {}
    /\ dbWebhookLogs = {}
    /\ dbMutations = {}
    /\ numRequests = 0


(***************************************************************************)
(* Dates and times (datetime, to the hour)                                 *)
(***************************************************************************)
Dt(y, m, d, h) == [y |-> y, m |-> m, d |-> d, h |-> h]

\* None for an optional datetime; what a raised ValueError leaves.
NoDate == Dt(0, 0, 0, 0)
ValueError == Dt(-1, 0, 0, 0)

IsLeap(y) == (y % 4 = 0 /\ y % 100 # 0) \/ y % 400 = 0

DaysInMonth(y, m) ==
    IF m = 2 THEN (IF IsLeap(y) THEN 29 ELSE 28)
    ELSE IF m \in {4, 6, 9, 11} THEN 30 ELSE 31

\* Chronological order is the lexicographic order of (y, m, d, h).
DtKey(t) == ((t.y * 12 + (t.m - 1)) * 31 + (t.d - 1)) * 24 + t.h
DtLE(a, b) == DtKey(a) <= DtKey(b)
DtLT(a, b) == DtKey(a) < DtKey(b)

NextDay(t) ==
    IF t.d < DaysInMonth(t.y, t.m) THEN [t EXCEPT !.d = t.d + 1]
    ELSE IF t.m < 12 THEN [t EXCEPT !.m = t.m + 1, !.d = 1]
    ELSE [t EXCEPT !.y = t.y + 1, !.m = 1, !.d = 1]

RECURSIVE AddDays(_, _)
\* t + timedelta(days=n)
AddDays(t, n) == IF n = 0 THEN t ELSE AddDays(NextDay(t), n - 1)

\* t + timedelta(hours=1)
AddHour(t) == IF t.h < 23 THEN [t EXCEPT !.h = t.h + 1] ELSE [NextDay(t) EXCEPT !.h = 0]

\* datetime.replace(year=, month=, day=): ValueError when the day does not
\* exist in that month.
Replace(t, y, m, d) ==
    IF d > DaysInMonth(y, m) THEN ValueError
    ELSE [t EXCEPT !.y = y, !.m = m, !.d = d]

\* No clamp: the day is kept as it is.
Min_NoClamp(a, b) == a

Min(a, b) == IF a < b THEN a ELSE b

Intervals == {"daily", "weekly", "biweekly", "monthly", "quarterly", "yearly"}

calculate_next_run(current_datetime, interval) ==
    CASE interval = "daily"    -> AddDays(current_datetime, 1)
      [] interval = "weekly"   -> AddDays(current_datetime, 7)
      [] interval = "biweekly" -> AddDays(current_datetime, 14)
      [] interval = "monthly"  ->
            LET month == current_datetime.m + 1
                day == Min(current_datetime.d, 28)
            IN IF month > 12
               THEN Replace(current_datetime, current_datetime.y + 1, 1, day)
               ELSE Replace(current_datetime, current_datetime.y, month, day)
      [] interval = "quarterly" ->
            LET month == current_datetime.m + 3
                day == Min(current_datetime.d, 28)
            IN IF month > 12
               THEN Replace(current_datetime, current_datetime.y + 1, month - 12, day)
               ELSE Replace(current_datetime, current_datetime.y, month, day)
      [] interval = "yearly"   ->
            Replace(current_datetime, current_datetime.y + 1,
                    current_datetime.m, current_datetime.d)
      [] OTHER -> AddDays(current_datetime, 1)

(***************************************************************************)
(* api/v1/scheduled_cards.py: process_scheduled_cards                      *)
(***************************************************************************)
\* The instants at which requests arrive.
Timeline == << Dt(2026, 1, 31, 9), Dt(2026, 2, 1, 0), Dt(2028, 2, 29, 10) >>

TemplateIds == {"t1", "t2"}
Sweeps == {"a", "b"}
\* The request slot a new sweep takes when both are free.
FirstSweep == "a"

\* boards rows: s1 has one board, s2 has none.
Boards == { [id |-> "b1", space_id |-> "s1", position |-> 0] }
NoColumn == 0
InitialColumns == { [id |-> 1, board_id |-> "b1", name |-> "Todo", position |-> 0] }

\* What create_scheduled_card is called with (start_date is the first instant).
TemplateInputs ==
    LET In(sp, iv, ed, id, name) ==
            [space_id |-> sp, interval |-> iv, end_date |-> ed,
             column_id |-> id, column_name |-> name]
    IN << In("s1", "monthly", NoDate, 1, "Todo"),
          In("s1", "monthly", NoDate, NoColumn, "Inbox"),
          In("s1", "monthly", NoDate, NoColumn, "Todo"),
          In("s1", "yearly", NoDate, 1, "Todo"),
          In("s1", "monthly", Dt(2026, 1, 31, 12), 1, "Todo"),
          In("s2", "monthly", NoDate, NoColumn, "Inbox"),
          In("s2", "monthly", NoDate, 1, "Todo") >>

\* The row create_scheduled_card commits: next_run = start_date, last_run unset.
NewTemplate(data) ==
    [space_id |-> data.space_id, column_id |-> data.column_id,
     column_name |-> data.column_name, interval |-> data.interval,
     start_date |-> Timeline[1], end_date |-> data.end_date,
     next_run |-> Timeline[1], last_run |-> NoDate, active |-> TRUE]

\* The where clause of the sweep's select.
IsDue(row, space_id, now) ==
    /\ row.space_id = space_id
    /\ row.active
    /\ DtLE(row.next_run, now)

\* if scheduled_card.end_date and scheduled_card.end_date < now
EndPassed(row, now) == row.end_date # NoDate /\ DtLT(row.end_date, now)

BoardSpace(board_id) == (CHOOSE b \in Boards : b.id = board_id).space_id
BoardsOf(space_id) == {b \in Boards : b.space_id = space_id}
FirstBoard(space_id) ==
    CHOOSE b \in BoardsOf(space_id) : \A c \in BoardsOf(space_id) : b.position <= c.position

\* position of a column appended to a board
NewColumnPosition(board_id) ==
    LET cols == {c \in dbColumns : c.board_id = board_id}
    IN IF cols = {} THEN 0
       ELSE (CHOOSE c \in cols : \A x \in cols : x.position <= c.position).position + 1

\* create_card_from_schedule up to the column it will use:
\*   existing   the stored column_id names a row of columns, or (stored id unset
\*              or dangling) exactly one column of the space has column_name
\*   create     no column of that name: a new one under the space's first board
\*   error      several columns of that name (scalar_one_or_none raises) or no
\*              board in the space (HTTP 400)
ResolveColumn(row) ==
    LET byId == {c \in dbColumns : c.id = row.column_id}
        named == {c \in dbColumns : /\ BoardSpace(c.board_id) = row.space_id
                                    /\ c.name = row.column_name}
        Plan(kind, column_id, board_id, setsRef, position) ==
            [kind |-> kind, column_id |-> column_id, board_id |-> board_id,
             setsRef |-> setsRef, name |-> row.column_name, position |-> position]
    IN IF row.column_id # NoColumn /\ byId # {}
       THEN Plan("existing", row.column_id, None, FALSE, 0)
       ELSE IF Cardinality(named) > 1
       THEN Plan("error", NoColumn, None, FALSE, 0)
       ELSE IF Cardinality(named) = 1
       THEN Plan("existing", (CHOOSE c \in named : TRUE).id, None, TRUE, 0)
       ELSE IF BoardsOf(row.space_id) = {}
       THEN Plan("error", NoColumn, None, FALSE, 0)
       ELSE Plan("create", NoColumn, FirstBoard(row.space_id).id, TRUE,
                 NewColumnPosition(FirstBoard(row.space_id).id))

NoPlan == [kind |-> None, column_id |-> NoColumn, board_id |-> None, setsRef |-> FALSE,
           name |-> None, position |-> 0]

NewColumnId == Cardinality(dbColumns) + 1

\* The rows of columns after create_card_from_schedule's commit.
ColumnsAfter(plan) ==
    IF plan.kind = "create"
    THEN dbColumns \cup {[id |-> NewColumnId, board_id |-> plan.board_id,
                          name |-> plan.name, position |-> plan.position]}
    ELSE dbColumns

PlanColumn(plan) == IF plan.kind = "create" THEN NewColumnId ELSE plan.column_id

\* The card create_card_from_schedule builds from the session's template
\* object: the template's start, and its end or else one hour after the start.
CardFrom(t, row, run, column_id) ==
    [tpl |-> t, run |-> run, due |-> row.next_run, column_id |-> column_id,
     start_date |-> row.start_date,
     end_date |-> IF row.end_date = NoDate THEN AddHour(row.start_date) ELSE row.end_date]

\* The flush of a commit: every attribute changed on a session object is
\* written to its row.
Flush(sess, dirty) ==
    [t \in TemplateIds |->
        IF t \in DOMAIN sess
        THEN [f \in DOMAIN dbTemplates[t] |->
                 IF f \in dirty[t] THEN sess[t][f] ELSE dbTemplates[t][f]]
        ELSE dbTemplates[t]]

NoDirty == [t \in TemplateIds |-> {}]

SweepEnded == {"idle", "rejected", "done", "failed"}

sweepOnly == UNCHANGED <<wsVars, mutVars, calcVars, trVars, rlVars, taskVars, tplVars>>

\* Time passes (while a request may still come to read it).
Tick ==
    /\ clock < Len(Timeline)
    /\ numSweeps < MaxSweeps
    /\ clock' = clock + 1
    /\ UNCHANGED <<dbTemplates, dbColumns, dbSchedCards, swPc, swSpace, swNow, swRun,
                   swQueue, swSess, swDirty, swCur, swPlan, swSnap, swOverlap,
                   concurrent, numSweeps>>
    /\ sweepOnly

\* process_scheduled_cards up to its loop: verify_space_access, now, the select.
SweepSelect(s, space_id, actor) ==
    /\ swPc[s] \in SweepEnded
    /\ \A o \in Sweeps : (swPc[o] \in SweepEnded /\ o # s) => s = FirstSweep
    /\ numSweeps < MaxSweeps
    /\ numSweeps' = numSweeps + 1
    /\ swRun' = [swRun EXCEPT ![s] = numSweeps + 1]
    /\ swSpace' = [swSpace EXCEPT ![s] = space_id]
    /\ swNow' = [swNow EXCEPT ![s] = Timeline[clock]]
    /\ swSnap' = [swSnap EXCEPT ![s] = dbTemplates]
    /\ swCur' = [swCur EXCEPT ![s] = None]
    /\ swPlan' = [swPlan EXCEPT ![s] = NoPlan]
    /\ swDirty' = [swDirty EXCEPT ![s] = NoDirty]
    /\ IF IsSpaceMember(actor, space_id)
       THEN LET due == {t \in TemplateIds : IsDue(dbTemplates[t], space_id, Timeline[clock])}
                others == {o \in Sweeps \ {s} : swPc[o] = "selected"}
                triggering == trPc \in {"loaded", "resolved"}
                fresh == {o \in others : \A c \in dbSchedCards : c.run # swRun[o]}
            IN /\ swPc' = [swPc EXCEPT ![s] = "selected"]
               /\ swQueue' = [swQueue EXCEPT ![s] = due]
               /\ swSess' = [swSess EXCEPT ![s] = [t \in due |-> dbTemplates[t]]]
               /\ swOverlap' = [o \in Sweeps |->
                                   IF o = s THEN others # {} \/ triggering
                                   ELSE swOverlap[o] \/ o \in others]
               /\ concurrent' = concurrent \cup {{numSweeps + 1, swRun[o]} : o \in fresh}
       ELSE /\ swPc' = [swPc EXCEPT ![s] = "rejected"]
            /\ swQueue' = [swQueue EXCEPT ![s] = {}]
            /\ swSess' = [swSess EXCEPT ![s] = <<>>]
            /\ swOverlap' = [swOverlap EXCEPT ![s] = FALSE]
            /\ UNCHANGED concurrent
    /\ UNCHANGED <<clock, dbTemplates, dbColumns, dbSchedCards>>
    /\ sweepOnly

\* The loop reaches a template whose end_date is before now: active = False,
\* continue.
SweepDeactivate(s, t) ==
    /\ swPc[s] = "selected"
    /\ swCur[s] = None
    /\ t \in swQueue[s]
    /\ EndPassed(swSess[s][t], swNow[s])
    /\ swSess' = [swSess EXCEPT ![s][t].active = FALSE]
    /\ swDirty' = [swDirty EXCEPT ![s][t] = @ \cup {"active"}]
    /\ swQueue' = [swQueue EXCEPT ![s] = @ \ {t}]
    /\ UNCHANGED <<clock, dbTemplates, dbColumns, dbSchedCards, swPc, swSpace, swNow,
                   swRun, swCur, swPlan, swSnap, swOverlap,
                   concurrent, numSweeps>>
    /\ sweepOnly

\* The request ends in an exception: its session is closed, uncommitted
\* changes are lost.
SweepFails(s) ==
    /\ swPc' = [swPc EXCEPT ![s] = "failed"]
    /\ swDirty' = [swDirty EXCEPT ![s] = NoDirty]
    /\ swCur' = [swCur EXCEPT ![s] = None]
    /\ swPlan' = [swPlan EXCEPT ![s] = NoPlan]
    /\ swQueue' = [swQueue EXCEPT ![s] = {}]
    /\ swSess' = [swSess EXCEPT ![s] = <<>>]

\* The loop reaches a template to materialise: create_card_from_schedule reads
\* the columns and boards and settles on a column, or raises.
SweepResolve(s, t) ==
    /\ swPc[s] = "selected"
    /\ swCur[s] = None
    /\ t \in swQueue[s]
    /\ ~EndPassed(swSess[s][t], swNow[s])
    /\ LET plan == ResolveColumn(swSess[s][t]) IN
         IF plan.kind = "error"
         THEN SweepFails(s)
         ELSE /\ swCur' = [swCur EXCEPT ![s] = t]
              /\ swPlan' = [swPlan EXCEPT ![s] = plan]
              /\ UNCHANGED <<swPc, swDirty, swQueue, swSess>>
    /\ UNCHANGED <<clock, dbTemplates, dbColumns, dbSchedCards, swSpace, swNow, swRun,
                   swSnap, swOverlap,
                   concurrent, numSweeps>>
    /\ sweepOnly

\* A reschedule anchored to the missed next_run instead of now.
Reschedule_FromNextRun(row, now) == calculate_next_run(row.next_run, row.interval)

\* What the loop stores in next_run after materialising at now.
Reschedule(row, now) == calculate_next_run(now, row.interval)

\* create_card_from_schedule inserts the column (if new) and the card and
\* commits, which also writes every pending change of the session; back in
\* the loop, last_run and next_run are set on the template object
\* (calculate_next_run may raise ValueError).
SweepMaterialise(s) ==
    /\ swPc[s] = "selected"
    /\ swCur[s] # None
    /\ LET t == swCur[s]
           plan == swPlan[s]
           col == PlanColumn(plan)
           row == IF plan.setsRef THEN [swSess[s][t] EXCEPT !.column_id = col]
                                  ELSE swSess[s][t]
           dirty == IF plan.setsRef
                    THEN [swDirty[s] EXCEPT ![t] = @ \cup {"column_id"}]
                    ELSE swDirty[s]
           sess == [swSess[s] EXCEPT ![t] = row]
           next == Reschedule(row, swNow[s])
       IN
         /\ dbColumns' = ColumnsAfter(plan)
         /\ dbSchedCards' = dbSchedCards \cup {CardFrom(t, row, swRun[s], col)}
         /\ dbTemplates' = Flush(sess, dirty)
         /\ IF next = ValueError
            THEN SweepFails(s)
            ELSE /\ swSess' = [swSess EXCEPT ![s] =
                                  [sess EXCEPT ![t].last_run = swNow[s],
                                               ![t].next_run = next]]
                 /\ swDirty' = [swDirty EXCEPT ![s] =
                                  [NoDirty EXCEPT ![t] = {"last_run", "next_run"}]]
                 /\ swQueue' = [swQueue EXCEPT ![s] = @ \ {t}]
                 /\ swCur' = [swCur EXCEPT ![s] = None]
                 /\ swPlan' = [swPlan EXCEPT ![s] = NoPlan]
                 /\ UNCHANGED swPc
    /\ UNCHANGED <<clock, swSpace, swNow, swRun, swSnap, swOverlap,
                   concurrent, numSweeps>>
    /\ sweepOnly

\* The loop is over: the final commit, and the response.
SweepFinish(s) ==
    /\ swPc[s] = "selected"
    /\ swCur[s] = None
    /\ swQueue[s] = {}
    /\ dbTemplates' = Flush(swSess[s], swDirty[s])
    /\ swDirty' = [swDirty EXCEPT ![s] = NoDirty]
    /\ swPc' = [swPc EXCEPT ![s] = "done"]
    /\ swSess' = [swSess EXCEPT ![s] = <<>>]
    /\ UNCHANGED <<clock, dbColumns, dbSchedCards, swSpace, swNow, swRun, swQueue,
                   swCur, swPlan, swSnap, swOverlap,
                   concurrent, numSweeps>>
    /\ sweepOnly

SweepIdle ==
    /\ clock = 1
    /\ dbColumns = InitialColumns
    /\ dbSchedCards = {}
    /\ swPc = [s \in Sweeps |-> "idle"]
    /\ swSpace = [s \in Sweeps |-> None]
    /\ swNow = [s \in Sweeps |-> NoDate]
    /\ swRun = [s \in Sweeps |-> 0]
    /\ swQueue = [s \in Sweeps |-> {}]
    /\ swSess = [s \in Sweeps |-> <<>>]
    /\ swDirty = [s \in Sweeps |-> NoDirty]
    /\ swCur = [s \in Sweeps |-> None]
    /\ swPlan = [s \in Sweeps |-> NoPlan]
    /\ swOverlap = [s \in Sweeps |-> FALSE]
    /\ concurrent = {}
    /\ numSweeps = 0

DefaultTemplate ==
    NewTemplate([space_id |-> "s1", interval |-> "monthly", end_date |-> NoDate,
                 column_id |-> 1, column_name |-> "Todo"])

\* The sweep variables of the specifications that are not about sweeps.
SweepInitFixed ==
    /\ SweepIdle
    /\ dbTemplates = [t \in TemplateIds |-> DefaultTemplate]
    /\ swSnap = [s \in Sweeps |-> dbTemplates]

\* The templates are rows that create_scheduled_card committed (t1 the one
\* made from the earlier input of the list, the two being interchangeable).
SweepInit ==
    /\ SweepIdle
    /\ \E i \in 1..Len(TemplateInputs), j \in 1..Len(TemplateInputs) :
          /\ i <= j
          /\ dbTemplates = [t \in TemplateIds |->
                               NewTemplate(TemplateInputs[IF t = "t1" THEN i ELSE j])]
    /\ swSnap = [s \in Sweeps |-> dbTemplates]



(***************************************************************************)
(* api/v1/scheduled_cards.py: update_scheduled_card                        *)
(***************************************************************************)
\* data.start_date of an update; the other fields of the update are omitted.
UpdateStarts == {Timeline[i] : i \in 1..Len(Timeline)}

\* if data.start_date is not None: start_date is stored, and next_run is
\* raised to it when it was earlier.
UpdatedTemplate(row, start_date) ==
    [row EXCEPT !.start_date = start_date,
                !.next_run = IF DtLT(row.next_run, start_date) THEN start_date ELSE @]

\* update_scheduled_card(t, start_date = ...) by a member of the template's
\* room: select, verify_space_access, the assignments, commit.
TemplateUpdate(t, start_date, actor) ==
    /\ numUpdates < MaxUpdates
    /\ numUpdates' = numUpdates + 1
    /\ IF IsSpaceMember(actor, dbTemplates[t].space_id)
       THEN dbTemplates' = [dbTemplates EXCEPT ![t] = UpdatedTemplate(@, start_date)]
       ELSE UNCHANGED dbTemplates
    /\ UNCHANGED <<clock, dbColumns, dbSchedCards, swPc, swSpace, swNow, swRun, swQueue,
                   swSess, swDirty, swCur, swPlan, swSnap, swOverlap, concurrent,
                   numSweeps>>
    /\ UNCHANGED <<wsVars, mutVars, calcVars, trVars, rlVars, taskVars>>

TemplateInit == numUpdates = 0

(***************************************************************************)
(* api/v1/scheduled_cards.py: trigger_scheduled_card                       *)
(***************************************************************************)
TriggerEnded == {"idle", "rejected", "done", "failed"}

triggerOnly ==
    UNCHANGED <<wsVars, mutVars, calcVars, rlVars, taskVars, tplVars, clock, swPc, swSpace, swNow, swRun, swQueue,
                swSess, swDirty, swCur, swPlan, swSnap, concurrent>>

\* trigger_scheduled_card up to create_card_from_schedule: the select of the
\* template and verify_space_access.
TriggerLoad(t, actor) ==
    /\ trPc \in TriggerEnded
    /\ numSweeps < MaxSweeps
    /\ numSweeps' = numSweeps + 1
    /\ trRun' = numSweeps + 1
    /\ trTpl' = t
    /\ trPlan' = NoPlan
    /\ IF IsSpaceMember(actor, dbTemplates[t].space_id)
       THEN /\ trPc' = "loaded"
            /\ trRow' = dbTemplates[t]
            /\ swOverlap' = [o \in Sweeps |-> swOverlap[o] \/ swPc[o] = "selected"]
       ELSE /\ trPc' = "rejected"
            /\ trRow' = DefaultTemplate
            /\ UNCHANGED swOverlap
    /\ UNCHANGED <<dbTemplates, dbColumns, dbSchedCards>>
    /\ triggerOnly

\* create_card_from_schedule reads the columns and boards and settles on a
\* column, or raises.
TriggerResolve ==
    /\ trPc = "loaded"
    /\ LET plan == ResolveColumn(trRow) IN
         IF plan.kind = "error"
         THEN /\ trPc' = "failed"
              /\ trRow' = DefaultTemplate
              /\ UNCHANGED trPlan
         ELSE /\ trPc' = "resolved"
              /\ trPlan' = plan
              /\ UNCHANGED trRow
    /\ UNCHANGED <<trTpl, trRun, numSweeps, swOverlap,
                   dbTemplates, dbColumns, dbSchedCards>>
    /\ triggerOnly

\* A trigger that reschedules the template as the sweep does.
TriggeredTemplates_Reschedule(t, plan, col) ==
    [dbTemplates EXCEPT ![t].last_run = Timeline[clock],
                        ![t].next_run = calculate_next_run(Timeline[1], dbTemplates[t].interval)]

\* The rows of scheduled_cards after the trigger's commit: only column_id of
\* the triggered template is written, when the column was resolved by name.
TriggeredTemplates(t, plan, col) ==
    IF plan.setsRef THEN [dbTemplates EXCEPT ![t].column_id = col] ELSE dbTemplates

\* create_card_from_schedule inserts the column (if new) and the card, sets
\* the template's column_id (if it resolved by name) and commits; the handler
\* returns the card's id.
TriggerMaterialise ==
    /\ trPc = "resolved"
    /\ LET col == PlanColumn(trPlan)
           row == IF trPlan.setsRef THEN [trRow EXCEPT !.column_id = col] ELSE trRow
       IN /\ dbColumns' = ColumnsAfter(trPlan)
          /\ dbSchedCards' = dbSchedCards \cup {CardFrom(trTpl, row, trRun, col)}
          /\ dbTemplates' = TriggeredTemplates(trTpl, trPlan, col)
    /\ trRow' = DefaultTemplate
    /\ trPlan' = NoPlan
    /\ trPc' = "done"
    /\ UNCHANGED <<trTpl, trRun, numSweeps, swOverlap>>
    /\ triggerOnly

TriggerIdle ==
    /\ trPc = "idle"
    /\ trTpl = None
    /\ trRow = DefaultTemplate
    /\ trPlan = NoPlan
    /\ trRun = 0

(***************************************************************************)
(* calculate_next_run applied along a chain t0, nextRun(t0), ...           *)
(***************************************************************************)
\* A valid calendar date-time.
IsValidDt(t) ==
    /\ t.m \in 1..12
    /\ t.d \in 1..DaysInMonth(t.y, t.m)
    /\ t.h \in 0..23

\* The date-times the chains start from: every day of a common year and of a
\* leap year, at midnight and at nine.
CalcYears == {2027, 2028}
CalcHours == {0, 9}
CalcInputs ==
    {t \in [y : CalcYears, m : 1..12, d : 1..31, h : CalcHours] : IsValidDt(t)}

\* next = calculate_next_run(t, interval); a ValueError ends the chain.
CalcNext ==
    /\ calcSteps < MaxChain
    /\ ~calcRaised
    /\ LET next == calculate_next_run(calcT, calcInterval) IN
         /\ calcRaised' = (next = ValueError)
         /\ calcT' = IF next = ValueError THEN calcT ELSE next
    /\ calcPrev' = calcT
    /\ calcSteps' = calcSteps + 1
    /\ UNCHANGED <<calcAnchor, calcInterval>>
    /\ UNCHANGED <<wsVars, mutVars, sweepVars, trVars, rlVars, taskVars, tplVars>>

CalcIdle ==
    /\ calcPrev = calcT
    /\ calcAnchor = calcT
    /\ calcSteps = 0
    /\ calcRaised = FALSE

\* The chain variables of the specifications that are not about chains.
CalcInitFixed ==
    /\ calcT = Timeline[1]
    /\ calcInterval = "daily"
    /\ CalcIdle

CalcInit ==
    /\ calcT \in CalcInputs
    /\ calcInterval \in Intervals
    /\ CalcIdle

(***************************************************************************)
(* main.py: custom_rate_limit_handler and its backoff cache                *)
(***************************************************************************)
MAX_BACKOFF_MINUTES == 30
BACKOFF_MULTIPLIER == 2
\* if len(_rate_limit_backoff_cache) > 1000
CleanupAbove == 1000

\* get_remote_address(request) of the clients followed.
RlKeys == {"c1", "c2"}
\* Seconds that pass between two rejected attempts (of any client).
Waits == {1, 240, 3600}
\* How many entries of other clients, none of them stale, the cache holds
\* when the handler is called.
OtherEntries == {0, 1000}

\* The exponential without the cap.
get_backoff_minutes_NoCap(retry_count) == BACKOFF_MULTIPLIER ^ retry_count

\* _get_backoff_minutes
get_backoff_minutes(retry_count) ==
    Min(BACKOFF_MULTIPLIER ^ retry_count, MAX_BACKOFF_MINUTES)

\* The grace period taken from the hint the client was given.
Rehabilitated_FromHint(count, last_retry, now) ==
    now - last_retry > get_backoff_minutes(count - 1) * 60 * 2

\* if now - last_retry > backoff_mins * 60 * 2, where backoff_mins is
\* _get_backoff_minutes of the stored count.
Rehabilitated(count, last_retry, now) ==
    now - last_retry > get_backoff_minutes(count) * 60 * 2

\* _cleanup_backoff_cache: drop the entries older than twice the cap.
cleanup_backoff_cache(cache, now) ==
    LET cutoff == now - MAX_BACKOFF_MINUTES * 60 * 2
        keep == {k \in DOMAIN cache : ~(cache[k].last < cutoff)}
    IN [k \in keep |-> cache[k]]

NoRejection == [count |-> 0, last |-> 0]

rlOnly == UNCHANGED <<wsVars, mutVars, sweepVars, calcVars, trVars, taskVars, tplVars>>

\* Time passes between two rejected attempts.
RlAdvance(d) ==
    /\ ~rlWaited
    /\ numRejections < MaxRejections
    /\ rlNow' = rlNow + d
    /\ rlWaited' = TRUE
    /\ UNCHANGED <<rlCache, rlHint, rlPrev, rlRun, rlLast, numRejections>>
    /\ rlOnly

\* The handler of RateLimitExceeded, for one rejected attempt of client_key.
custom_rate_limit_handler(client_key, others) ==
    /\ numRejections < MaxRejections
    /\ numRejections' = numRejections + 1
    /\ LET known == client_key \in DOMAIN rlCache
           stored == IF known THEN rlCache[client_key].count ELSE 0
           reset == known /\ Rehabilitated(stored, rlCache[client_key].last, rlNow)
           count == (IF reset THEN 0 ELSE stored) + 1
           updated == [k \in DOMAIN rlCache \cup {client_key} |->
                          IF k = client_key THEN [count |-> count, last |-> rlNow]
                                            ELSE rlCache[k]]
           backoff_minutes == get_backoff_minutes(count - 1)
       IN /\ rlCache' = IF Cardinality(DOMAIN updated) + others > CleanupAbove
                        THEN cleanup_backoff_cache(updated, rlNow)
                        ELSE updated
          /\ rlHint' = [rlHint EXCEPT ![client_key] = backoff_minutes]
          /\ rlPrev' = [rlPrev EXCEPT ![client_key] = [count |-> count, last |-> rlNow]]
          /\ rlRun' = [rlRun EXCEPT ![client_key] = IF known /\ ~reset THEN @ + 1 ELSE 1]
          /\ rlLast' = [key |-> client_key, known |-> known, reset |-> reset,
                        cleaned |-> Cardinality(DOMAIN updated) + others > CleanupAbove]
    /\ rlWaited' = FALSE
    /\ UNCHANGED rlNow
    /\ rlOnly

RlInit ==
    /\ rlCache = <<>>
    /\ rlNow = 0
    /\ rlWaited = FALSE
    /\ rlHint = [k \in RlKeys |-> 0]
    /\ rlPrev = [k \in RlKeys |-> NoRejection]
    /\ rlRun = [k \in RlKeys |-> 0]
    /\ rlLast = [key |-> None, known |-> FALSE, reset |-> FALSE, cleaned |-> FALSE]
    /\ numRejections = 0

(***************************************************************************)
(* api/v1/cards.py: add_task, update_task, delete_task on one card         *)
(***************************************************************************)
\* The requests that can be in progress at the same time, each with its own
\* session.
TaskReqs == {"r1", "r2"}
\* len(scheduled_card.tasks) of the template the card is made from.
TemplateTasks == {0, 1, 2}
LastTemplateTask == 2
TaskIds == 1..(LastTemplateTask + MaxTaskRequests)
TaskOps == {"add", "update", "delete"}
TaskEnded == {"idle", "done", "notfound", "failed"}

NoCard == [exists |-> FALSE, task_counter |-> 0, task_completed_counter |-> 0]
NoTask == [id |-> 0, completed |-> FALSE]
NoOp == [kind |-> None, task_id |-> 0, completed |-> FALSE]

taskOnly == UNCHANGED <<wsVars, mutVars, sweepVars, calcVars, trVars, rlVars, tplVars>>

\* create_card_from_schedule: the new card, one Task per template task and
\* card.task_counter += 1 for each, committed together.
TaskMaterialise(n) ==
    /\ ~tkCard.exists
    /\ tkCard' = [exists |-> TRUE, task_counter |-> n, task_completed_counter |-> 0]
    /\ tkTasks' = {[id |-> i, completed |-> FALSE] : i \in 1..n}
    /\ UNCHANGED <<tkPc, tkOp, tkRead, tkSeen, numTaskRequests>>
    /\ taskOnly

\* A handler up to its commit: verify_card_access loads the card into the
\* request's session; update_task and delete_task then load the task and
\* answer 404 when it is not there.
TaskLoad(p, kind, task_id, completed) ==
    /\ tkPc[p] \in TaskEnded
    /\ tkCard.exists
    /\ numTaskRequests < MaxTaskRequests
    /\ numTaskRequests' = numTaskRequests + 1
    /\ tkOp' = [tkOp EXCEPT ![p] =
                  [kind |-> kind,
                   task_id |-> IF kind = "add" THEN LastTemplateTask + numTaskRequests + 1
                               ELSE task_id,
                   completed |-> completed]]
    /\ tkRead' = [tkRead EXCEPT ![p] = tkCard]
    /\ LET found == {t \in tkTasks : t.id = task_id} IN
         IF kind = "add"
         THEN tkPc' = [tkPc EXCEPT ![p] = "loaded"] /\ tkSeen' = [tkSeen EXCEPT ![p] = NoTask]
         ELSE IF found = {}
         THEN tkPc' = [tkPc EXCEPT ![p] = "notfound"] /\ tkSeen' = [tkSeen EXCEPT ![p] = NoTask]
         ELSE /\ tkPc' = [tkPc EXCEPT ![p] = "loaded"]
              /\ tkSeen' = [tkSeen EXCEPT ![p] = CHOOSE t \in found : TRUE]
    /\ UNCHANGED <<tkCard, tkTasks>>
    /\ taskOnly

\* card.task_counter += 1 on the object the session loaded: the UPDATE sets
\* the column to the value computed from what was read.
Incremented(read, committed) == read + 1

Decremented(read, committed) == read - 1

\* add_task: await db.commit() inserts the task and updates the counter.
TaskCommitAdd(p) ==
    /\ tkPc[p] = "loaded"
    /\ tkOp[p].kind = "add"
    /\ tkTasks' = tkTasks \cup {[id |-> tkOp[p].task_id, completed |-> FALSE]}
    /\ tkCard' = [tkCard EXCEPT
                    !.task_counter = Incremented(tkRead[p].task_counter, @)]
    /\ tkPc' = [tkPc EXCEPT ![p] = "done"]
    /\ UNCHANGED <<tkOp, tkRead, tkSeen, numTaskRequests>>
    /\ taskOnly

\* update_task: task_data.completed is compared with the Task object of the
\* session; the UPDATE of a task row that is gone raises StaleDataError and
\* the transaction is rolled back.
TaskCommitUpdate(p) ==
    /\ tkPc[p] = "loaded"
    /\ tkOp[p].kind = "update"
    /\ LET seen == tkSeen[p]
           flips == tkOp[p].completed # seen.completed
           row == {t \in tkTasks : t.id = seen.id}
       IN IF ~flips
          THEN /\ tkPc' = [tkPc EXCEPT ![p] = "done"]
               /\ UNCHANGED <<tkCard, tkTasks>>
          ELSE IF row = {}
          THEN /\ tkPc' = [tkPc EXCEPT ![p] = "failed"]
               /\ UNCHANGED <<tkCard, tkTasks>>
          ELSE /\ tkPc' = [tkPc EXCEPT ![p] = "done"]
               /\ tkTasks' = (tkTasks \ row) \cup
                                {[id |-> seen.id, completed |-> tkOp[p].completed]}
               /\ tkCard' = [tkCard EXCEPT !.task_completed_counter =
                               IF tkOp[p].completed
                               THEN Incremented(tkRead[p].task_completed_counter, @)
                               ELSE Decremented(tkRead[p].task_completed_counter, @)]
    /\ UNCHANGED <<tkOp, tkRead, tkSeen, numTaskRequests>>
    /\ taskOnly

\* delete_task: both counters are written from the objects of the session;
\* the DELETE of a task row that is gone only warns.
TaskCommitDelete(p) ==
    /\ tkPc[p] = "loaded"
    /\ tkOp[p].kind = "delete"
    /\ tkTasks' = {t \in tkTasks : t.id # tkSeen[p].id}
    /\ tkCard' = [tkCard EXCEPT
                    !.task_counter = Decremented(tkRead[p].task_counter, @),
                    !.task_completed_counter =
                        IF tkSeen[p].completed
                        THEN Decremented(tkRead[p].task_completed_counter, @)
                        ELSE @]
    /\ tkPc' = [tkPc EXCEPT ![p] = "done"]
    /\ UNCHANGED <<tkOp, tkRead, tkSeen, numTaskRequests>>
    /\ taskOnly

TaskInit ==
    /\ tkCard = NoCard
    /\ tkTasks = {}
    /\ tkPc = [p \in TaskReqs |-> "idle"]
    /\ tkOp = [p \in TaskReqs |-> NoOp]
    /\ tkRead = [p \in TaskReqs |-> NoCard]
    /\ tkSeen = [p \in TaskReqs |-> NoTask]
    /\ numTaskRequests = 0

WsInit ==
    /\ active_connections = <<>>
    /\ wsPc = [w \in Conns |-> "new"]
    /\ wsToken = [w \in Conns |-> None]
    /\ wsSpace = [w \in Conns |-> None]
    /\ wsUser = [w \in Conns |-> None]
    /\ pubPc = [p \in Publishers |-> "idle"]
    /\ pubRoom = [p \in Publishers |-> None]
    /\ pubUsed = [p \in Publishers |-> 0]
    /\ pubStale = [p \in Publishers |-> FALSE]
    /\ pubStart = [p \in Publishers |-> {}]
    /\ pubPassed = [p \in Publishers |-> {}]
    /\ pubCur = [p \in Publishers |-> None]
    /\ pubDead = [p \in Publishers |-> {}]
    /\ pubFailed = [p \in Publishers |-> {}]
    /\ pubDelivered = [p \in Publishers |-> [w \in Conns |-> 0]]
    /\ pubInterf = [p \in Publishers |-> {}]
    /\ numPublishes = 0
    /\ connects = [r \in Rooms |-> 0]
    /\ disconnects = [r \in Rooms |-> 0]
    /\ lastSendFailed = {}
    /\ removedByPublish = {}
    /\ everRegistered = {}

Init == WsInit /\ MutInit /\ SweepInitFixed /\ CalcInitFixed /\ TriggerIdle /\ RlInit /\ TaskInit /\ TemplateInit

\* Clients of the registry specification carry the token of a member of both rooms.
RegistryTokens == {"t_alice"}

Next ==
    \/ \E w \in Conns, t \in RegistryTokens, s \in Rooms : WsAuthenticate(w, t, s)
    \/ \E w \in Conns : WsCheckAccess(w)
    \/ \E w \in Conns : WsConnect(w)
    \/ \E w \in Conns : WsAcceptFails(w)
    \/ \E w \in Conns : WsDisconnect(w)
    \/ \E p \in Publishers, r \in Rooms : PubStartEmpty(p, r)
    \/ \E p \in Publishers, r \in Rooms, w \in Conns : PubStart(p, r, w)
    \/ \E p \in Publishers : PubSendOk(p)
    \/ \E p \in Publishers : PubSendFail(p)

Spec == Init /\ [][Next]_vars

NextAuth ==
    \/ \E w \in Conns, t \in Tokens, s \in SpaceIds : WsAuthenticate(w, t, s)
    \/ \E w \in Conns : WsCheckAccess(w)
    \/ \E w \in Conns : WsConnect(w)
    \/ \E w \in Conns : WsAcceptFails(w)
    \/ \E w \in Conns : WsDisconnect(w)

SpecAuth == Init /\ [][NextAuth]_vars

NextMutation ==
    \/ \E k \in Kinds, a \in Actors, g \in BOOLEAN, ch \in BOOLEAN,
          c \in CardIds, r \in Rooms : MutBegin(k, a, g, ch, c, r)
    \/ MutCommit
    \/ MutPublish
    \/ MutPublishRaises
    \/ MutNotifyStage
    \/ MutNotifyCommit
    \/ \E u \in UsersInDb, i \in 1..MaxRequests :
          MutNotifyPush([user_id |-> u, req |-> i])
    \/ MutDispatchLoad
    \/ MutDispatchSend
    \/ \E o \in PostOutcomes : MutDispatchPost(o)
    \/ MutDispatchCommit
    \/ MutCrash

SpecMutation == Init /\ [][NextMutation]_vars

NextNotify ==
    \/ NextMutation
    \/ \E a \in Actors, g \in BOOLEAN, c \in CardIds, r \in Rooms : MutComment(a, g, c, r)
    \/ \E a \in Actors, g \in BOOLEAN, u \in DelegateTargets, s \in DelegateSpaces :
          DelegateBegin(a, g, u, s)
    \/ DelegateCommit
    \/ MutReturn
    \/ \E a \in Actors, names \in SUBSET MentionNames : NotifyMentions(a, names)

SpecNotify == Init /\ [][NextNotify]_vars

InitSweep ==
    WsInit /\ MutInit /\ SweepInit /\ CalcInitFixed /\ TriggerIdle /\ RlInit /\ TaskInit /\ TemplateInit

NextSweep ==
    \/ Tick
    \/ \E s \in Sweeps, r \in Rooms, a \in Actors : SweepSelect(s, r, a)
    \/ \E s \in Sweeps, t \in TemplateIds : SweepDeactivate(s, t)
    \/ \E s \in Sweeps, t \in TemplateIds : SweepResolve(s, t)
    \/ \E s \in Sweeps : SweepMaterialise(s)
    \/ \E s \in Sweeps : SweepFinish(s)
    \/ \E t \in TemplateIds, a \in Actors : TriggerLoad(t, a)
    \/ TriggerResolve
    \/ TriggerMaterialise

SpecSweep == InitSweep /\ [][NextSweep]_vars

NextTemplates ==
    \/ Tick
    \/ \E s \in Sweeps, r \in Rooms, a \in Actors : SweepSelect(s, r, a)
    \/ \E s \in Sweeps, t \in TemplateIds : SweepDeactivate(s, t)
    \/ \E s \in Sweeps, t \in TemplateIds : SweepResolve(s, t)
    \/ \E s \in Sweeps : SweepMaterialise(s)
    \/ \E s \in Sweeps : SweepFinish(s)
    \/ \E t \in TemplateIds, d \in UpdateStarts, a \in Actors : TemplateUpdate(t, d, a)

SpecTemplates == InitSweep /\ [][NextTemplates]_vars

InitCalc ==
    WsInit /\ MutInit /\ SweepInitFixed /\ CalcInit /\ TriggerIdle /\ RlInit /\ TaskInit /\ TemplateInit

NextCalc == CalcNext

SpecCalc == InitCalc /\ [][NextCalc]_vars

NextBackoff ==
    \/ \E d \in Waits : RlAdvance(d)
    \/ \E k \in RlKeys, n \in OtherEntries : custom_rate_limit_handler(k, n)

SpecBackoff == Init /\ [][NextBackoff]_vars

NextTasks ==
    \/ \E n \in TemplateTasks : TaskMaterialise(n)
    \/ \E p \in TaskReqs, k \in TaskOps, t \in TaskIds, c \in BOOLEAN : TaskLoad(p, k, t, c)
    \/ \E p \in TaskReqs : TaskCommitAdd(p)
    \/ \E p \in TaskReqs : TaskCommitUpdate(p)
    \/ \E p \in TaskReqs : TaskCommitDelete(p)

SpecTasks == Init /\ [][NextTasks]_vars

(***************************************************************************)
(* Claims about the registry                                               *)
(***************************************************************************)

\* C1: publish never raises because a send to one connection failed; every
\* other connection of the room receives the message exactly once, and when
\* publish returns exactly the connections whose send failed have been
\* removed from the room's set. (Publishes whose room set nothing else
\* touched meanwhile; the interleaved case is C3.)
C1_PublishSurvivesFailedSend ==
    [][\A p \in Publishers :
         /\ (pubPc[p] = "sending" /\ pubPc'[p] = "raised") => pubInterf[p] # {}
         /\ (pubPc[p] = "sending" /\ pubPc'[p] = "returned" /\ pubInterf[p] = {}) =>
              /\ \A w \in pubStart'[p] :
                    pubDelivered'[p][w] = IF w \in pubFailed'[p] THEN 0 ELSE 1
              /\ \A w \in Conns \ pubStart'[p] : pubDelivered'[p][w] = 0
              /\ pubRoom[p] \in DOMAIN active_connections'
              /\ active_connections'[pubRoom[p]] = pubStart[p] \ pubFailed'[p]
      ]_vars

C1_Witness ==
    \E p \in Publishers :
        /\ pubPc[p] = "returned"
        /\ pubInterf[p] = {}
        /\ pubFailed[p] # {}
        /\ \E w \in pubStart[p] : pubDelivered[p][w] = 1
        /\ RoomSet(pubRoom[p]) = pubStart[p] \ pubFailed[p]

Quiescent == \A p \in Publishers : ~Iterating(p)

\* C2 (as claimed): with no publish in progress, a room's connection count is
\* successful connects minus disconnects minus connections whose last send failed.
C2_Original ==
    Quiescent =>
      \A r \in Rooms :
        Cardinality(RoomSet(r)) =
          connects[r] - disconnects[r]
            - Cardinality({w \in lastSendFailed : wsSpace[w] = r})

\* C2 (amended): a room's connection count is successful connects minus the
\* number of distinct connections that were disconnected or discarded by a
\* publish after a failed send.
C2_CountConnections ==
    \A r \in Rooms :
      Cardinality(RoomSet(r)) =
        connects[r]
          - Cardinality({w \in Conns : /\ wsSpace[w] = r
                                       /\ \/ wsPc[w] = "disconnected"
                                          \/ w \in removedByPublish})

C2_Witness ==
    \E r \in Rooms, w \in Conns :
        /\ wsSpace[w] = r
        /\ w \in removedByPublish
        /\ wsPc[w] = "disconnected"
        /\ connects[r] >= 2
        /\ RoomSet(r) # {}

\* C3: a connect or disconnect that interleaves with a publish to the same
\* room never makes the publish raise, and every connection that stayed
\* registered for the whole publish receives the message.
C3_Original ==
    \A p \in Publishers :
        /\ ~(pubPc[p] = "raised" /\ pubInterf[p] \cap {"connect", "disconnect"} # {})
        /\ pubPc[p] \in {"returned", "raised"} =>
             \A w \in pubStart[p] :
                 (wsPc[w] = "open" /\ w \notin removedByPublish /\ w \notin pubFailed[p])
                     => pubDelivered[p][w] >= 1

\* C4: every room key of the registry maps to a non-empty set.
C4_Original ==
    \A r \in DOMAIN active_connections : active_connections[r] # {}

GoodCredential(t) ==
    /\ t \in Tokens \ ({"none"} \cup InvalidTokens)
    /\ TokenSub[t] \in UsersInDb \ BannedUsers

IsMemberOf(u, s) ==
    /\ s \in Rooms
    /\ (SpaceOwner[s] = u \/ u \in SpaceMembers[s])

\* C5: a connection is registered only after authentication and the membership
\* check succeeded; a bad credential ends in close code 4001, an authenticated
\* non-member in 4003, and neither is ever in the registry.
C5_AdmissionAfterChecks ==
    \A w \in Conns :
        /\ (\E r \in DOMAIN active_connections : w \in active_connections[r])
              => w \in everRegistered
        /\ w \in everRegistered =>
              /\ GoodCredential(wsToken[w])
              /\ IsMemberOf(TokenSub[wsToken[w]], wsSpace[w])
              /\ wsPc[w] \in {"open", "disconnected"}
        /\ (wsPc[w] # "new" /\ ~GoodCredential(wsToken[w])) => wsPc[w] = "closed4001"
        /\ wsPc[w] = "closed4001" => (~GoodCredential(wsToken[w]) /\ w \notin everRegistered)
        /\ (/\ wsPc[w] \notin {"new", "authed"}
            /\ GoodCredential(wsToken[w])
            /\ ~IsMemberOf(TokenSub[wsToken[w]], wsSpace[w])) => wsPc[w] = "closed4003"
        /\ wsPc[w] = "closed4003" =>
              /\ GoodCredential(wsToken[w])
              /\ ~IsMemberOf(TokenSub[wsToken[w]], wsSpace[w])
              /\ w \notin everRegistered

C5_Witness ==
    /\ \E w \in Conns : wsPc[w] = "closed4001" /\ wsToken[w] = "t_carol" /\ wsSpace[w] = "s1"
    /\ \E w \in Conns : wsPc[w] = "closed4003" /\ wsToken[w] = "t_bob" /\ wsSpace[w] = "s1"
    /\ \E w \in Conns : w \in RoomSet("s2") /\ wsToken[w] = "t_bob"

(***************************************************************************)
(* Claims about the card mutation handlers                                 *)
(***************************************************************************)
StepRank(tag) ==
    CASE tag = "audit"   -> 1
      [] tag = "commit"  -> 2
      [] tag = "publish" -> 3
      [] tag = "notify"  -> 4
      [] tag = "push"    -> 5
      [] tag = "webhook" -> 6

Happened(tag) == \E i \in 1..Len(reqTrace) : reqTrace[i] = tag

\* C6: for every card mutation the audit entry is appended in the mutation's
\* transaction and the transaction commits, then the realtime publish, then
\* (automated actor only) the notification fan-out, then the webhook dispatch;
\* nothing is emitted before the commit, and a later failure leaves the
\* committed mutation in place.
C6_Original ==
    /\ \A i, j \in 1..Len(reqTrace) : i < j => StepRank(reqTrace[i]) <= StepRank(reqTrace[j])
    /\ Happened("commit") =>
          /\ Len(reqTrace) >= 2 /\ reqTrace[1] = "audit" /\ reqTrace[2] = "commit"
          /\ req.id \in dbMutations
    /\ (Happened("publish") \/ Happened("push") \/ Happened("webhook")) => Happened("commit")
    /\ Happened("webhook") => Happened("publish")
    /\ Happened("notify") => req.agent
    /\ (reqPc = "done" /\ req.agent /\ NotifyTargets(req.room, req.actor) # {})
          => Happened("notify")

\* C7: there is no state in which an automated actor's mutation is committed
\* and its notification records are not.
C7_Original ==
    \A r \in dbMutations :
        (r = req.id /\ req.agent) =>
            \A u \in SpaceMembers[req.room] \ {req.actor} :
                [user_id |-> u, req |-> r] \in dbNotifications


(***************************************************************************)
(* Claims about the batch sweep (SpecSweep)                                *)
(***************************************************************************)
\* The cards a sweep (by its number) has committed.
CardsOfRun(run) == {c \in dbSchedCards : c.run = run}

\* The templates a sweep found active and due in its room, with no end date.
EligibleAtSelect(s) ==
    {t \in TemplateIds : /\ IsDue(swSnap[s][t], swSpace[s], swNow[s])
                         /\ swSnap[s][t].end_date = NoDate}

\* The templates a sweep's select did not return.
NotSelected(s) ==
    {t \in TemplateIds : ~IsDue(swSnap[s][t], swSpace[s], swNow[s])}

\* C8: when two sweeps both select before either commits, no template is
\* materialised by both of them: no two cards of one template for the same
\* due occurrence come from two such sweeps.
C8_Original ==
    \A c1 \in dbSchedCards, c2 \in dbSchedCards :
        (c1.tpl = c2.tpl /\ c1.due = c2.due /\ c1.run # c2.run)
            => {c1.run, c2.run} \notin concurrent

\* C9: a sweep at now over N active, due, end-date-free templates ends with
\* exactly N cards, one per template, and each of them has next_run > now;
\* the templates that its select did not return got no card and are as they
\* were.  (Stated for a sweep that ran alone in a room that has a board.)
C9_Original ==
    [][\A s \in Sweeps :
          (/\ swPc[s] = "selected"
           /\ swPc'[s] \in {"done", "failed"}
           /\ ~swOverlap'[s]
           /\ BoardsOf(swSpace[s]) # {})
          => /\ \A t \in EligibleAtSelect(s) :
                   /\ Cardinality({c \in dbSchedCards' :
                                      c.run = swRun[s] /\ c.tpl = t}) = 1
                   /\ DtLT(swNow[s], dbTemplates'[t].next_run)
             /\ \A t \in NotSelected(s) :
                   /\ {c \in dbSchedCards' : c.run = swRun[s] /\ c.tpl = t} = {}
                   /\ dbTemplates'[t] = swSnap[s][t]]_vars

\* C10: once a sweep at now has materialised a template and the request is
\* over, the stored template has last_run = now and
\* next_run = nextRun(now, interval).  (Stated for a sweep that ran alone in
\* a room that has a board.)
C10_Original ==
    [][\A s \in Sweeps :
          (/\ swPc[s] = "selected"
           /\ swPc'[s] \in {"done", "failed"}
           /\ BoardsOf(swSpace[s]) # {}
           /\ ~swOverlap'[s])
          => \A c \in {x \in dbSchedCards' : x.run = swRun[s]} :
                /\ dbTemplates'[c.tpl].last_run = swNow[s]
                /\ dbTemplates'[c.tpl].next_run =
                       calculate_next_run(swNow[s], dbTemplates'[c.tpl].interval)]_vars


\* The sweep s ends at this step, having run alone in a room that has a board.
SweepEndsAlone(s) ==
    /\ swPc[s] = "selected"
    /\ swPc'[s] \in {"done", "failed"}
    /\ ~swOverlap'[s]
    /\ BoardsOf(swSpace[s]) # {}

\* No two columns of the room have the same name.
DistinctNames(columns, space_id) ==
    \A c \in columns, d \in columns :
        (/\ BoardSpace(c.board_id) = space_id
         /\ BoardSpace(d.board_id) = space_id
         /\ c.name = d.name) => c.id = d.id

\* Template t as sweep s selected it: monthly, start 2026-01-31T09:00, no end,
\* never run, swept at 2026-02-01T00:00.
MonthlyScenario(s, t) ==
    /\ swNow[s] = Dt(2026, 2, 1, 0)
    /\ IsDue(swSnap[s][t], swSpace[s], swNow[s])
    /\ swSnap[s][t].interval = "monthly"
    /\ swSnap[s][t].start_date = Dt(2026, 1, 31, 9)
    /\ swSnap[s][t].next_run = Dt(2026, 1, 31, 9)
    /\ swSnap[s][t].end_date = NoDate

\* The cards a sweep made from template t: exactly one, starting at the
\* template's start and ending one hour later.
OneHourCard(cards, s, t) ==
    LET made == {c \in cards : c.run = swRun[s] /\ c.tpl = t}
    IN /\ Cardinality(made) = 1
       /\ \A c \in made : /\ c.start_date = Dt(2026, 1, 31, 9)
                          /\ c.end_date = Dt(2026, 1, 31, 10)

\* C11 (as stated): the sweep of the scenario leaves next_run =
\* 2026-02-28T09:00 and one card from the template's start, one hour long.
C11_Original ==
    [][\A s \in Sweeps, t \in TemplateIds :
          (SweepEndsAlone(s) /\ MonthlyScenario(s, t))
          => /\ dbTemplates'[t].next_run = Dt(2026, 2, 28, 9)
             /\ OneHourCard(dbSchedCards', s, t)]_vars

\* C11 (amended): the sweep of the scenario leaves next_run =
\* 2026-03-01T00:00, one month after the sweep time, and one card from the
\* template's start, one hour long.
C11_SweepScenario ==
    [][\A s \in Sweeps, t \in TemplateIds :
          (/\ SweepEndsAlone(s)
           /\ MonthlyScenario(s, t)
           /\ DistinctNames(dbColumns', swSpace[s]))
          => /\ dbTemplates'[t].next_run = Dt(2026, 3, 1, 0)
             /\ dbTemplates'[t].last_run = Dt(2026, 2, 1, 0)
             /\ OneHourCard(dbSchedCards', s, t)]_vars

\* A sweep of the scenario has finished.
C11_Witness ==
    \E s \in Sweeps, t \in TemplateIds :
        /\ swPc[s] = "done"
        /\ ~swOverlap[s]
        /\ MonthlyScenario(s, t)
        /\ dbTemplates[t].next_run = Dt(2026, 3, 1, 0)
        /\ OneHourCard(dbSchedCards, s, t)


(***************************************************************************)
(* Claims about calculate_next_run (SpecCalc)                              *)
(***************************************************************************)
\* C12: for every interval and every valid date-time t, nextRun(t, interval)
\* is a valid date-time strictly after t with the time of day of t.
C12_Original ==
    calcSteps > 0
        => /\ ~calcRaised
           /\ IsValidDt(calcT)
           /\ DtLT(calcPrev, calcT)
           /\ calcT.h = calcPrev.h

\* The month and year that follow (y, m) by k months.
MonthAfter(m, k) == ((m - 1 + k) % 12) + 1
YearAfter(y, m, k) == IF m + k > 12 THEN y + 1 ELSE y

StepMonths == IF calcInterval = "monthly" THEN 1 ELSE 3

\* C13: in a monthly or quarterly chain from an anchor whose day is above 28,
\* every later occurrence is a valid date with day at most 28, its month 1
\* (monthly) or 3 (quarterly) after the previous one modulo 12, its year one
\* more exactly when the month passed December.
C13_ClampedChain ==
    (calcInterval \in {"monthly", "quarterly"} /\ calcAnchor.d > 28 /\ calcSteps > 0)
        => /\ ~calcRaised
           /\ IsValidDt(calcT)
           /\ calcT.d <= 28
           /\ calcT.m = MonthAfter(calcPrev.m, StepMonths)
           /\ calcT.y = YearAfter(calcPrev.y, calcPrev.m, StepMonths)

\* A chain from a day above 28 that has gone past December.
C13_Witness ==
    /\ calcInterval \in {"monthly", "quarterly"}
    /\ calcAnchor.d > 28
    /\ calcSteps >= 2
    /\ ~calcRaised
    /\ calcT.y > calcAnchor.y
    /\ calcT.d = 28


\* The templates a sweep selected whose end date is before its now.
ExpiredAtSelect(s) ==
    {t \in TemplateIds : /\ IsDue(swSnap[s][t], swSpace[s], swNow[s])
                         /\ EndPassed(swSnap[s][t], swNow[s])}

\* C14: a sweep leaves every due, active template whose end date is before
\* its now deactivated, with no card and with next_run and last_run as they
\* were; and no step sets active back to true.
C14_Original ==
    [][/\ \A s \in Sweeps :
             SweepEndsAlone(s)
             => \A t \in ExpiredAtSelect(s) :
                   /\ ~dbTemplates'[t].active
                   /\ {c \in dbSchedCards' : c.run = swRun[s] /\ c.tpl = t} = {}
                   /\ dbTemplates'[t].next_run = swSnap[s][t].next_run
                   /\ dbTemplates'[t].last_run = swSnap[s][t].last_run
       /\ \A t \in TemplateIds : ~dbTemplates[t].active => ~dbTemplates'[t].active]_vars


(***************************************************************************)
(* Claims about the manual trigger and column resolution (SpecSweep)       *)
(***************************************************************************)
\* The trigger commits at this step.
TriggerCommits == trPc = "resolved" /\ trPc' = "done"

\* C15: a manual trigger makes exactly one card, whatever the template's
\* active flag, next_run and end_date are, and leaves next_run, last_run and
\* active of every template as they were, so that a template that was due
\* stays due for the next sweep.
C15_TriggerFrame ==
    [][TriggerCommits
       => /\ Cardinality(dbSchedCards' \ dbSchedCards) = 1
          /\ \A c \in dbSchedCards' \ dbSchedCards : c.tpl = trTpl /\ c.run = trRun
          /\ Cardinality({c \in dbSchedCards' : c.run = trRun}) = 1
          /\ \A t \in TemplateIds :
                /\ dbTemplates'[t].next_run = dbTemplates[t].next_run
                /\ dbTemplates'[t].last_run = dbTemplates[t].last_run
                /\ dbTemplates'[t].active = dbTemplates[t].active
                /\ \A i \in 1..Len(Timeline) :
                      IsDue(dbTemplates[t], dbTemplates[t].space_id, Timeline[i])
                          => IsDue(dbTemplates'[t], dbTemplates'[t].space_id, Timeline[i])]_vars

\* A template was triggered and a later sweep selected it as due and made
\* its card as well.
C15_Witness ==
    /\ trPc = "done"
    /\ \E c \in dbSchedCards : c.run = trRun /\ c.tpl = trTpl
    /\ \E s \in Sweeps :
          /\ swRun[s] > trRun
          /\ IsDue(swSnap[s][trTpl], swSpace[s], swNow[s])
          /\ \E c \in dbSchedCards : c.run = swRun[s] /\ c.tpl = trTpl


\* The stored column of a session's template object is unset or names no row.
ColumnMissing(row) ==
    row.column_id = NoColumn \/ \A c \in dbColumns : c.id # row.column_id

\* A request fails at this step in create_card_from_schedule's column
\* resolution for a template whose stored column is missing, in a room that
\* has a board.
ResolutionFails ==
    \/ /\ trPc = "loaded" /\ trPc' = "failed"
       /\ ColumnMissing(trRow)
       /\ BoardsOf(trRow.space_id) # {}
    \/ \E s \in Sweeps :
          /\ swPc[s] = "selected" /\ swPc'[s] = "failed" /\ swCur[s] = None
          /\ BoardsOf(swSpace[s]) # {}
          /\ \A t \in swQueue[s] : ~EndPassed(swSess[s][t], swNow[s])
                                      => ColumnMissing(swSess[s][t])

\* The card the trigger commits is in a column of the template's room named
\* column_name, and the template's stored column is that column.
PlacedByName ==
    \A c \in dbSchedCards' \ dbSchedCards :
        /\ dbTemplates'[trTpl].column_id = c.column_id
        /\ \E col \in dbColumns' :
              /\ col.id = c.column_id
              /\ col.name = dbTemplates[trTpl].column_name
              /\ BoardSpace(col.board_id) = dbTemplates[trTpl].space_id

\* C16: materialising a template whose stored column is unset or gone never
\* fails while the room has a board: the card goes to a column of the room
\* named column_name and the template's column_id is set to it; in a room
\* without a board a trigger fails and makes no card and no column.
C16_Original ==
    [][/\ ~ResolutionFails
       /\ (TriggerCommits /\ trPlan.setsRef) => PlacedByName
       /\ (/\ trPc = "loaded" /\ trPc' # "loaded"
           /\ ColumnMissing(trRow)
           /\ BoardsOf(trRow.space_id) = {})
             => (trPc' = "failed" /\ UNCHANGED <<dbSchedCards, dbColumns>>)]_vars


(***************************************************************************)
(* Claims about the webhook dispatch (SpecMutation)                        *)
(***************************************************************************)
\* The subscriptions a dispatch for (room, event) is due to: of that room,
\* active, with an empty filter or one that contains the event.
ExpectedTargets(room, event) ==
    {Webhooks[i].id : i \in {k \in 1..Len(Webhooks) :
                                /\ Webhooks[k].space_id = room
                                /\ Webhooks[k].active
                                /\ (Webhooks[k].events = {} \/ event \in Webhooks[k].events)}}

\* The delivery records of the current request, pending or committed.
RecordsOfReq == {l \in sessLogs \cup dbWebhookLogs : l.req = req.id}

\* The number of posts the current request has started.
PostsStarted == Cardinality({i \in 1..Len(reqTrace) : reqTrace[i] = "webhook"})

\* C17: every attempt of a dispatch leaves exactly one delivery record,
\* whether it ended in a 2xx response, another response or an exception; the
\* record's success flag is true exactly for a status in 200..299; no
\* subscription is attempted twice in one dispatch; when the dispatch has
\* returned, every subscription it is due to has exactly one committed record.
C17_OneRecordPerAttempt ==
    /\ \A l \in sessLogs \cup dbWebhookLogs :
          /\ l.seq = 1
          /\ l.success <=> (200 <= l.response_status /\ l.response_status <= 299)
    /\ reqPc \in {"dispatching", "posting"} =>
          Cardinality(RecordsOfReq) = PostsStarted - (IF reqPc = "posting" THEN 1 ELSE 0)
    /\ reqPc = "done" =>
          \A h \in ExpectedTargets(req.room, EventOf(req.kind)) :
              Cardinality({l \in dbWebhookLogs : l.req = req.id /\ l.webhook_id = h}) = 1

\* A dispatch has returned after one attempt that succeeded and one that
\* raised.
C17_Witness ==
    /\ reqPc = "done"
    /\ \E l1, l2 \in dbWebhookLogs :
          /\ l1.req = req.id /\ l2.req = req.id
          /\ l1.success
          /\ ~l2.success /\ l2.response_status = NullStatus

\* C18: a dispatch attempts, and records, exactly the subscriptions of its
\* room that are active and whose filter is empty or contains the event.
C18_ExactTargets ==
    /\ \A l \in RecordsOfReq :
          /\ l.event = EventOf(req.kind)
          /\ l.webhook_id \in ExpectedTargets(req.room, l.event)
    /\ reqPc = "posting" =>
          Head(reqWhLeft).id \in ExpectedTargets(req.room, EventOf(req.kind))
    /\ reqPc = "done" =>
          {l.webhook_id : l \in RecordsOfReq} = ExpectedTargets(req.room, EventOf(req.kind))

\* A dispatch for an update in s1 has returned: of the four subscriptions only
\* h1 (s1, active, no filter) has a record.
C18_Witness ==
    /\ reqPc = "done"
    /\ req.room = "s1"
    /\ req.kind = "update"
    /\ {l.webhook_id : l \in RecordsOfReq} = {"h1"}

\* C19: while a handler is in dispatch_webhooks no step ends the request in
\* an error or changes the committed cards and history; a post that ends,
\* however it ends, adds a record and the loop goes on; and the handler that
\* returns has its mutation committed.
C19_FailuresRecorded ==
    [][/\ reqPc \in {"dispatching", "posting"} =>
             /\ reqPc' \in {"dispatching", "posting", "done", "crashed"}
             /\ UNCHANGED <<dbCards, dbHistory, dbMutations>>
       /\ (reqPc = "posting" /\ reqPc' \notin {"posting", "crashed"}) =>
             /\ reqPc' = "dispatching"
             /\ Cardinality(sessLogs') = Cardinality(sessLogs) + 1
       /\ (reqPc # "done" /\ reqPc' = "done") => req.id \in dbMutations']_vars

\* A handler has returned after every one of its deliveries failed, and its
\* mutation is committed.
C19_Witness ==
    /\ reqPc = "done"
    /\ Cardinality(RecordsOfReq) >= 2
    /\ \A l \in RecordsOfReq : ~l.success
    /\ \E l \in RecordsOfReq : l.response_status = NullStatus
    /\ req.id \in dbMutations

\* C20: the attempts of one dispatch do not wait for one another: while one
\* post is in flight no other subscription of the dispatch is still waiting
\* for its own post to start.
C20_Original ==
    reqPc = "posting" => SkipFiltered(Tail(reqWhLeft), EventOf(req.kind)) = <<>>

(***************************************************************************)
(* Claims about the notifications (SpecNotify)                             *)
(***************************************************************************)
\* Notification rows a step adds to the session of the request in progress.
CreatedNotifications == sessNotifs' \ sessNotifs

\* C21: no notification record is ever created whose recipient is the
\* identity that performed the triggering action, in the fan-out of the card
\* handlers and of add_comment, in delegate_task for any target_user_id, and
\* in notify_mentions.
C21_Original ==
    [][\A n \in CreatedNotifications : n.user_id # req'.actor]_vars

\* The committed notification rows of the request in progress.
NotificationsOfReq == {n \in dbNotifications : n.req = req.id}

\* One row for each member of the request's room other than its actor.
OnePerOtherMember ==
    {[user_id |-> u, req |-> req.id] : u \in SpaceMembers[req.room] \ {req.actor}}

\* A card mutation of the request in progress is committed and its handler
\* has ended, with its response or with an exception.
MutationEnded ==
    /\ req.kind \in Kinds \cup {"comment"}
    /\ req.id \in dbMutations
    /\ reqPc \in {"done", "error"}

\* C22: a card mutation (create, update, move, delete, comment) performed by
\* an automated actor creates exactly one notification record for each member
\* of the card's room other than the actor and none for anyone else; performed
\* by a human actor it creates no notification record.
C22_Original ==
    MutationEnded =>
        NotificationsOfReq = IF req.agent THEN OnePerOtherMember ELSE {}

(***************************************************************************)
(* Claims about the audit log                                              *)
(***************************************************************************)
\* The step is the commit of the change of the request in progress.
ChangeCommits == req.id \notin dbMutations /\ req.id \in dbMutations'

\* The audit entry of the request in progress: subject, action and actor.
AuditEntryOfReq ==
    [card |-> req.card, action |-> req.kind, actor |-> req.actor, req |-> req.id]

\* C23: every successful change to a card (create, update of any field,
\* move, delete) and to its comments appends exactly one audit entry with
\* the subject, the action and the actor, in the transaction of the change.
C23_Original ==
    [][ChangeCommits => dbHistory' \ dbHistory = {AuditEntryOfReq}]_vars

\* C24: the audit log is append-only: no operation, the deletion of the
\* card an entry refers to included, modifies or removes a committed audit
\* entry, so the set of audit entries only grows.
C24_Original ==
    [][dbHistory \subseteq dbHistory']_vars

(***************************************************************************)
(* Claims about the rate-limit backoff (SpecBackoff)                       *)
(***************************************************************************)
\* The step is a rejected attempt of client key k.
Rejected(k) == numRejections' = numRejections + 1 /\ rlLast'.key = k

\* min(30, 2^(n-1)) minutes.
HintOfRejection(n) == IF n >= 6 THEN 30 ELSE 2 ^ (n - 1)

\* C25: for one client key, the k-th rejection of a run without a reset in
\* between gets the retry hint min(30, 2^(k-1)) minutes; the hint is between
\* 1 and 30 and not below the hint before it, and the stored consecutive
\* counter grows by exactly one per rejection.
C25_HintsOfARun ==
    [][\A k \in RlKeys :
          Rejected(k) =>
              /\ rlHint'[k] = HintOfRejection(rlRun'[k])
              /\ 1 <= rlHint'[k] /\ rlHint'[k] <= 30
              /\ rlCache'[k].count = rlRun'[k]
              /\ rlRun'[k] > 1 =>
                    /\ rlHint'[k] >= rlHint[k]
                    /\ rlCache'[k].count = rlPrev[k].count + 1]_vars

\* One key was rejected seven times in a run and its hints reached the cap.
C25_Witness ==
    \E k \in RlKeys : rlRun[k] = 7 /\ rlHint[k] = 30 /\ rlCache[k].count = 7

\* Seconds since the previous rejected attempt of key k.
ElapsedSincePrevious(k) == rlNow - rlPrev[k].last

\* Twice the wait computed from the counter stored for key k, in seconds.
GraceWindow(k) == 2 * 60 * (IF rlPrev[k].count >= 5 THEN 30 ELSE 2 ^ rlPrev[k].count)

\* C26: a rejected attempt that arrives more than twice the currently
\* computed wait (min(30, 2^count) minutes for the stored count) after the
\* key's previous rejected attempt finds the counter reset to zero, so that
\* it is counted as the first of a new run; one that arrives within that
\* window is counted on top of the stored counter.
C26_ResetWhenLate ==
    [][\A k \in RlKeys :
          (Rejected(k) /\ rlPrev[k].count > 0) =>
              IF ElapsedSincePrevious(k) > GraceWindow(k)
              THEN rlCache'[k].count = 1 /\ rlHint'[k] = 1
              ELSE rlCache'[k].count = rlPrev[k].count + 1]_vars

\* A key with a stored counter above one came back too late and was reset;
\* the cache had been cleaned of its entry or still held it.
C26_Witness ==
    \E k \in RlKeys :
        /\ rlLast.key = k
        /\ rlLast.reset
        /\ rlRun[k] = 1
        /\ rlHint[k] = 1
        /\ numRejections >= 4

(***************************************************************************)
(* Claims about the subtask counters (SpecTasks)                           *)
(***************************************************************************)
CompletedTasks == {t \in tkTasks : t.completed}

\* C30: after any sequence, concurrent interleavings of separate requests
\* included, of add_task, update_task, delete_task and template
\* materialisation on a card, task_counter is the number of its subtasks,
\* task_completed_counter the number of its completed subtasks, and
\* 0 <= task_completed_counter <= task_counter.
C30_Original ==
    tkCard.exists =>
        /\ tkCard.task_counter = Cardinality(tkTasks)
        /\ tkCard.task_completed_counter = Cardinality(CompletedTasks)
        /\ 0 <= tkCard.task_completed_counter
        /\ tkCard.task_completed_counter <= tkCard.task_counter

(***************************************************************************)
(* Further claims about the batch sweep (SpecSweep)                        *)
(***************************************************************************)
\* The sweep s ends at this step, with its response or with an exception,
\* and no other request ran while it did.
SweepEndsUndisturbed(s) ==
    /\ swPc[s] = "selected"
    /\ swPc'[s] \in {"done", "failed"}
    /\ ~swOverlap'[s]

\* C27: when a sweep has ended, normally or by an error raised while a later
\* template was materialised, every template for which it durably created a
\* card has last_run and next_run durably advanced: it is not left due.
C27_Original ==
    [][\A s \in Sweeps :
          SweepEndsUndisturbed(s) =>
              \A c \in {x \in dbSchedCards' : x.run = swRun[s]} :
                  /\ dbTemplates'[c.tpl].last_run = swNow[s]
                  /\ DtLT(swNow[s], dbTemplates'[c.tpl].next_run)
                  /\ ~IsDue(dbTemplates'[c.tpl], swSpace[s], swNow[s])]_vars

\* The room of the board that owns the column with this id.
RoomOfColumn(column_id) ==
    {BoardSpace(col.board_id) : col \in {x \in dbColumns : x.id = column_id}}

\* C29: every card materialised from a template, by a manual trigger or by a
\* batch sweep, is in a column that belongs to a board of the template's own
\* room, whatever column reference the template was given.
C29_Original ==
    \A c \in dbSchedCards : RoomOfColumn(c.column_id) = {dbTemplates[c.tpl].space_id}

(***************************************************************************)
(* Templates under sweeps and updates (SpecTemplates)                      *)
(***************************************************************************)
\* The step is one of update_scheduled_card.
IsTemplateUpdate == numUpdates' # numUpdates

\* The cards a sweep commits at this step.
SweptCards == dbSchedCards' \ dbSchedCards

\* C28: next_run of a template is never earlier than its start_date, no step
\* of a sweep lowers a stored next_run, and no sweep commits a card of a
\* template at a time earlier than the template's stored start_date.
C28_Original ==
    [][/\ \A t \in TemplateIds :
             DtLE(dbTemplates'[t].start_date, dbTemplates'[t].next_run)
       /\ ~IsTemplateUpdate =>
             \A t \in TemplateIds :
                 DtLE(dbTemplates[t].next_run, dbTemplates'[t].next_run)
       /\ \A c \in SweptCards : \A s \in Sweeps :
             swRun[s] = c.run =>
                 DtLE(dbTemplates'[c.tpl].start_date, swNow[s])]_vars

TypeOK == wsPc \in [Conns -> {"new", "authed", "closed4001", "closed4003", "accepting",
                              "aborted", "open", "disconnected"}]
====
